---- MODULE Spec2Model ----
(***************************************************************************)
(* The method of equal shares of pabutools (rules/mes/mes_rule.py) as a    *)
(* state machine: the outer scheme (method_of_equal_shares_scheme), the    *)
(* rounds of mes_inner_algo with its recursion kept as an explicit stack   *)
(* of frames, and the naive reference implementation (naive_mes) with its  *)
(* poor/rich affordability computation.  Budgets, satisfactions and        *)
(* affordabilities are exact fractions <<numerator, denominator>>.         *)
(* The module also holds pb_ear (rules/pb_ear.py) and sequential_phragmen  *)
(* (rules/phragmen.py), each with a state of its own (ear, phr).           *)
(***************************************************************************)
EXTENDS Integers, Sequences, FiniteSets, TLC

VARIABLES instance, profile, args, sat_profile, pc, initial_budget_per_voter, mes_projects,
          budget_allocation, previous_outcome, all_budget_allocations, stack,
          result, nv, ear, phr, gps, cstv, kept

vars == <<instance, profile, args, sat_profile, pc, initial_budget_per_voter, mes_projects,
          budget_allocation, previous_outcome, all_budget_allocations, stack,
          result, nv, ear, phr, gps, cstv, kept>>

-----------------------------------------------------------------------------
(* Bounds of the model. *)

NumProjects == 3

NumBallots == 2

MaxCost == 3

MaxMult == 2

MaxBudget == 5

\* a budget limit and a cost in currency units, the cost just above half of the
\* budget limit
LargeBudget == 5000000

LargeCost == 2500001

\* the largest donation of a donor to a project
MaxDonation == 2

\* the projects of the instance, by name
Projects == DOMAIN instance.cost

\* the entries of the profile, by position
Ballots == DOMAIN profile.ballot

-----------------------------------------------------------------------------
(* Exact fractions (pabutools.fractions.frac): <<n, d>> with d > 0, reduced. *)

RECURSIVE GCD(_, _)
GCD(a, b) == IF b = 0 THEN a ELSE GCD(b, a % b)

Abs(n) == IF n < 0 THEN -n ELSE n

Norm(n, d) ==
    LET g == GCD(Abs(n), Abs(d))
        s == IF d < 0 THEN -1 ELSE 1
    IN  <<(s * n) \div g, (s * d) \div g>>

RInt(n) == <<n, 1>>

Zero == <<0, 1>>

\* float("inf"), the start value of best_afford: larger than every fraction
Inf == <<1, 0>>

RAdd(x, y) == Norm(x[1] * y[2] + y[1] * x[2], x[2] * y[2])

RSub(x, y) == Norm(x[1] * y[2] - y[1] * x[2], x[2] * y[2])

RMul(x, y) == Norm(x[1] * y[1], x[2] * y[2])

\* frac(x, y) for y # 0; the callers below test y = 0 (ZeroDivisionError) first
frac(x, y) == Norm(x[1] * y[2], x[2] * y[1])

RLt(x, y) == x[1] * y[2] < y[1] * x[2]

RLeq(x, y) == x[1] * y[2] <= y[1] * x[2]

RMin(x, y) == IF RLeq(x, y) THEN x ELSE y

RECURSIVE RSum(_)
\* the sum of a sequence of fractions
RSum(s) == IF s = <<>> THEN Zero ELSE RAdd(Head(s), RSum(Tail(s)))

RECURSIVE SetToSeq(_)
\* the elements of a set of numbers in increasing order
SetToSeq(S) ==
    IF S = {} THEN <<>>
    ELSE LET m == CHOOSE x \in S : \A y \in S : x <= y
         IN  <<m>> \o SetToSeq(S \ {m})

SeqSet(s) == {s[i] : i \in 1..Len(s)}

RECURSIVE Sum(_, _)
\* the sum of the values of the function f over the set S
Sum(S, f) ==
    IF S = {} THEN 0
    ELSE LET x == CHOOSE y \in S : TRUE IN f[x] + Sum(S \ {x}, f)

-----------------------------------------------------------------------------
(* The election: instance, profile and satisfaction measure. *)

Cost(p) == instance.cost[p]

total_cost(alloc) == Sum(1..Len(alloc), [i \in 1..Len(alloc) |-> Cost(alloc[i])])

set_cost(S) == Sum(S, instance.cost)

\* the largest number of projects of the ballot that fit the budget limit together
max_budget_allocation_cardinality(ballot) ==
    LET fit == {S \in SUBSET ballot : set_cost(S) <= instance.budget_limit}
    IN  CHOOSE n \in 0..Cardinality(ballot) :
            /\ \E S \in fit : Cardinality(S) = n
            /\ \A S \in fit : Cardinality(S) <= n

cardinality_sat_func(ballot, p) == RInt(IF p \in ballot THEN 1 ELSE 0)

cost_sat_func(ballot, p) == RInt(IF p \in ballot THEN Cost(p) ELSE 0)

relative_cardinality_sat_func(ballot, p) ==
    LET card == max_budget_allocation_cardinality(ballot)
    IN  IF card = 0 THEN Zero
        ELSE frac(RInt(IF p \in ballot THEN 1 ELSE 0), RInt(card))

\* profile.as_sat_profile(sat_class): one satisfaction measure per ballot, its
\* scores computed once
as_sat_profile(ballot, sat_class) ==
    [i \in Ballots |-> [p \in Projects |->
        CASE sat_class = "Cardinality_Sat" -> cardinality_sat_func(ballot[i], p)
          [] sat_class = "Cost_Sat" -> cost_sat_func(ballot[i], p)
          [] OTHER -> relative_cardinality_sat_func(ballot[i], p)]]

\* voters[i].sat.sat_project(p): the satisfaction of ballot i for project p
sat_project(i, p) == sat_profile[i][p]

multiplicity(i) == profile.mult[i]

\* MESVoter.total_sat_project
total_sat_project(i, p) == RMul(RInt(multiplicity(i)), sat_project(i, p))

\* MESVoter.total_budget for the budgets b of a frame
total_budget(b, i) == RMul(RInt(multiplicity(i)), b[i])

\* sum(voters[i].total_budget() for i in s) over a sequence s of voter indices
available_budget(b, s) == RSum([k \in 1..Len(s) |-> total_budget(b, s[k])])

\* profile.num_ballots(): ballots counted with their multiplicity
num_ballots == Sum(Ballots, profile.mult)

-----------------------------------------------------------------------------
(* MESProject bookkeeping and the scan of one round of mes_inner_algo. *)

\* None, for unique_sat_supporter and voter_budget_increment
None == <<0, 0>>

\* MESProject.supporters_sat: the stored value when it is set (truthy),
\* the supporter's own satisfaction otherwise
supporters_sat(p, i) ==
    LET u == mes_projects.unique_sat_supporter[p]
    IN  IF u # None /\ u[1] # 0 THEN u ELSE sat_project(i, p)

\* MESVoter.budget_over_sat_project (its map only caches the quotient)
budget_over_sat_project(b, i, p) == frac(b[i], sat_project(i, p))

RECURSIVE InsertByRatio(_, _, _, _)
\* i put into the sorted sequence s behind every element whose key is not larger
InsertByRatio(i, s, b, p) ==
    IF s = <<>> THEN <<i>>
    ELSE IF RLt(budget_over_sat_project(b, i, p),
                budget_over_sat_project(b, Head(s), p))
         THEN <<i>> \o s
         ELSE <<Head(s)>> \o InsertByRatio(i, Tail(s), b, p)

RECURSIVE SortSupporters(_, _, _)
\* project.supporter_indices.sort(key=budget_over_sat_project): a stable sort
SortSupporters(s, b, p) ==
    IF s = <<>> THEN <<>>
    ELSE InsertByRatio(s[Len(s)], SortSupporters(SubSeq(s, 1, Len(s) - 1), b, p), b, p)

RECURSIVE SupporterScan(_, _, _, _, _, _)
\* the loop over the sorted supporters s of project p from position k on
SupporterScan(b, p, s, k, current_contribution, denominator) ==
    IF k > Len(s) THEN [found |-> FALSE, error |-> "", afford |-> Zero]
    ELSE IF denominator[1] = 0
    THEN [found |-> FALSE, error |-> "ZeroDivisionError", afford |-> Zero]
    ELSE LET i == s[k]
             afford_factor == frac(RSub(RInt(Cost(p)), current_contribution), denominator)
         IN  IF RLeq(RMul(afford_factor, supporters_sat(p, i)), b[i])
             THEN [found |-> TRUE, error |-> "", afford |-> afford_factor]
             ELSE SupporterScan(b, p, s, k + 1,
                      RAdd(current_contribution, total_budget(b, i)),
                      RSub(denominator, RMul(RInt(multiplicity(i)), supporters_sat(p, i))))

RECURSIVE ProjectScan(_, _, _, _)
\* the loop over sorted(projects, key=affordability) from position k on; acc
\* carries what the loop changes
ProjectScan(b, order, k, acc) ==
    IF k > Len(order) \/ acc.error # "" THEN acc
    ELSE LET p == order[k] IN
         IF RLt(available_budget(b, acc.supporter_indices[p]), RInt(Cost(p)))
         THEN ProjectScan(b, order, k + 1, [acc EXCEPT !.projects = @ \ {p}])
         ELSE IF RLt(acc.best_afford, acc.affordability[p])
         THEN acc
         ELSE LET s == SortSupporters(acc.supporter_indices[p], b, p)
                  r == SupporterScan(b, p, s, 1, Zero, mes_projects.total_sat[p])
                  a1 == [acc EXCEPT !.supporter_indices[p] = s, !.priced = @ \cup {p}]
              IN  IF r.error # "" THEN [a1 EXCEPT !.error = r.error]
                  ELSE IF ~r.found THEN ProjectScan(b, order, k + 1, a1)
                  ELSE LET a2 == [a1 EXCEPT !.affordability[p] = r.afford] IN
                       IF RLt(r.afford, acc.best_afford)
                       THEN ProjectScan(b, order, k + 1,
                                [a2 EXCEPT !.best_afford = r.afford,
                                           !.tied_projects = <<p>>])
                       ELSE IF r.afford = acc.best_afford
                       THEN ProjectScan(b, order, k + 1,
                                [a2 EXCEPT !.tied_projects = Append(@, p)])
                       ELSE ProjectScan(b, order, k + 1, a2)

\* a frame of mes_inner_algo before its scan
ScanStart(f) ==
    [projects |-> f.projects, affordability |-> f.affordability,
     supporter_indices |-> f.supporter_indices, best_afford |-> Inf,
     tied_projects |-> <<>>, priced |-> {}, error |-> ""]

Orderings(S) ==
    {s \in [1..Cardinality(S) -> S] : \A i, j \in 1..Cardinality(S) : i # j => s[i] # s[j]}

\* a faulty variant of ScanOrders: the projects are scanned in the iteration
\* order of the set, unsorted
ScanOrders_Unsorted(f) == Orderings(f.projects)

\* sorted(projects, key=affordability): ascending stored affordability, projects
\* of equal affordability in the iteration order of the set
ScanOrders(f) ==
    {o \in Orderings(f.projects) :
        \A i, j \in 1..Len(o) :
            i < j => RLeq(f.affordability[o[i]], f.affordability[o[j]])}

Scan(f, order) == ProjectScan(f.voters, order, 1, ScanStart(f))

RECURSIVE InsertByRule(_, _, _)
InsertByRule(p, s, rank) ==
    IF s = <<>> THEN <<p>>
    ELSE IF rank[p] < rank[Head(s)] THEN <<p>> \o s
         ELSE <<Head(s)>> \o InsertByRule(p, Tail(s), rank)

RECURSIVE TieOrder(_, _)
\* tie_breaking_rule.order(instance, profile, tied_projects): the projects sorted
\* by the rank the rule gives them
TieOrder(tied, rank) ==
    IF tied = <<>> THEN <<>>
    ELSE InsertByRule(tied[Len(tied)], TieOrder(SubSeq(tied, 1, Len(tied) - 1), rank), rank)

\* a faulty variant of Pay: the supporters are credited what they owe
Pay_Credit(b, p, s, k, best_afford) ==
    [i \in DOMAIN b |->
        IF \E n \in k..Len(s) : s[n] = i
        THEN RAdd(b[i], RMin(b[i], RMul(best_afford, supporters_sat(p, i))))
        ELSE b[i]]

RECURSIVE Pay(_, _, _, _, _)
\* the supporters s of the selected project p, from position k on, each pay
\* min(budget, best_afford * supporters_sat)
Pay(b, p, s, k, best_afford) ==
    IF k > Len(s) THEN b
    ELSE LET i == s[k]
             due == RMin(b[i], RMul(best_afford, supporters_sat(p, i)))
         IN  Pay([b EXCEPT ![i] = RSub(@, due)], p, s, k + 1, best_afford)

\* a faulty variant of Select: the selected project stays among the projects
Select_KeepsProject(f, r, p) ==
    [voters |-> Pay(f.voters, p, r.supporter_indices[p], 1, r.best_afford),
     projects |-> r.projects,
     affordability |-> r.affordability,
     supporter_indices |-> r.supporter_indices,
     alloc |-> Append(f.alloc, p),
     tied_projects |-> <<>>,
     best_afford |-> Inf,
     scanned |-> FALSE]

\* the state handed to the recursive call on selected_project: new_alloc,
\* new_projects and new_voters after the append, the removal and the payments
Select(f, r, p) ==
    [voters |-> Pay(f.voters, p, r.supporter_indices[p], 1, r.best_afford),
     projects |-> r.projects \ {p},
     affordability |-> r.affordability,
     supporter_indices |-> r.supporter_indices,
     alloc |-> Append(f.alloc, p),
     tied_projects |-> <<>>,
     best_afford |-> Inf,
     scanned |-> FALSE]

-----------------------------------------------------------------------------
(* The inputs of a call of method_of_equal_shares. *)

\* the default rule, lexico_tie_breaking: projects by name
lexico_tie_breaking == [p \in Projects |-> p]

\* tie-breaking rules: every ranking of the projects
TieBreakingRules == {r \in [Projects -> Projects] : \A p, q \in Projects : p # q => r[p] # r[q]}

SatClasses == {"Cardinality_Sat", "Cost_Sat", "Relative_Cardinality_Sat"}

\* a profile with multiplicities keeps one entry per distinct ballot
ProfileOK(ballot, mult) ==
    (\E i \in DOMAIN ballot : mult[i] > 1) =>
        \A i, j \in DOMAIN ballot : i # j => ballot[i] # ballot[j]

Idle == [pc |-> "idle", voters |-> [i \in Ballots |-> Zero], remaining |-> {},
         res |-> <<>>, initial_budget |-> Zero]

\* the arguments of a call: an instance of one of the Sizes, a profile with one
\* of the Counts of entries, and the options
InputsWith(Sizes, Counts, Costs, Limits, Mults, Classes, Binaries, Resolutes, Rules, Allocations, Increments) ==
    /\ \E np \in Sizes : \E cost \in [1..np -> Costs], limit \in Limits :
            instance = [cost |-> cost, budget_limit |-> limit]
    /\ \E nb \in Counts :
         \E ballot \in [1..nb -> SUBSET Projects], mult \in [1..nb -> Mults] :
            /\ ProfileOK(ballot, mult)
            /\ profile = [ballot |-> ballot, mult |-> mult]
    /\ \E c \in Classes, bin \in Binaries, res \in Resolutes, rule \in Rules,
          alloc \in Allocations, inc \in Increments :
            /\ res = FALSE => rule = lexico_tie_breaking
            /\ args = [sat_class |-> c, binary_sat |-> bin,
                       resoluteness |-> res, tie_breaking |-> rule,
                       initial_budget_allocation |-> alloc,
                       voter_budget_increment |-> inc]
    /\ sat_profile = as_sat_profile(profile.ballot, args.sat_class)

\* pb_ear before it is called
EarIdle == [pc |-> "idle", kind |-> "", budget |-> None, project_cost |-> <<>>,
            voters |-> <<>>, initial_n |-> 0, voter_weights |-> <<>>, j |-> 0,
            selected_projects |-> {}, remaining_budget |-> None,
            result |-> <<>>, raised |-> ""]

\* sequential_phragmen before it is called
PhrIdle == [pc |-> "idle", stack |-> <<>>, allocs |-> <<>>,
            result |-> [list |-> FALSE, value |-> <<>>, raised |-> ""]]

\* greedy_sequential_phragmen (gpseq) before it is called
GpsIdle == [pc |-> "idle", mode |-> "uniform", multiprofile |-> FALSE,
            remaining_budget |-> 0, selected_projects |-> <<>>,
            available_projects |-> {}, unseen |-> <<>>, result |-> <<>>, raised |-> ""]

\* cstv_budgeting before it is called
CstvIdle == [pc |-> "idle", combination |-> "ewt", raised |-> "", donors |-> <<>>, projects |-> {}, S |-> {},
             eliminated_projects |-> {}, budget |-> Zero,
             result |-> [none |-> FALSE, value |-> {}]]

\* no result of an earlier call is kept
NothingKept == [pc |-> "idle", result |-> [list |-> FALSE, value |-> <<>>, raised |-> ""]]

\* gpseq and cstv_budgeting are not called, no result is kept
OthersIdle == gps = GpsIdle /\ cstv = CstvIdle /\ kept = NothingKept

\* the state of the scheme before the call
MesIdle ==
    /\ initial_budget_per_voter = Zero
    /\ mes_projects = [set |-> {},
                       total_sat |-> [p \in Projects |-> Zero],
                       unique_sat_supporter |-> [p \in Projects |-> None],
                       supporter_indices |-> [p \in Projects |-> <<>>],
                       initial_affordability |-> [p \in Projects |-> Zero]]
    /\ budget_allocation = <<>>
    /\ previous_outcome = [list |-> FALSE, value |-> <<>>, raised |-> ""]
    /\ all_budget_allocations = <<>>
    /\ stack = <<>>
    /\ result = [list |-> FALSE, value |-> <<>>, raised |-> ""]
    /\ nv = Idle

\* the state before a call of method_of_equal_shares: the other rules are not
\* called
SchemeIdle == MesIdle /\ ear = EarIdle /\ phr = PhrIdle /\ OthersIdle

InitWith(Costs, Limits, Mults, Classes, Binaries, Resolutes, Rules, Allocations, Increments) ==
    /\ InputsWith({NumProjects}, {NumBallots}, Costs, Limits, Mults, Classes, Binaries,
                  Resolutes, Rules, Allocations, Increments)
    /\ pc = "call"
    /\ SchemeIdle

-----------------------------------------------------------------------------
(* method_of_equal_shares and the set-up of method_of_equal_shares_scheme. *)

\* the voters with positive satisfaction for p, in the order of the voter list
Supporters(sp, p) ==
    SetToSeq({i \in Ballots : RLt(Zero, sp[i][p])})

\* total_sat of p: the satisfaction of its supporters, with multiplicity
TotalSat(sp, p) ==
    LET s == Supporters(sp, p)
    IN  RSum([k \in 1..Len(s) |-> RMul(RInt(profile.mult[s[k]]), sp[s[k]][p])])

\* the projects the scheme looks at: the instance without the initial allocation
Candidates == Projects \ SeqSet(args.initial_budget_allocation)

\* the frame of the call of mes_inner_algo that starts a run: every voter at the
\* starting budget, copy(projects), deepcopy(budget_allocation)
FirstFrame(budget, mp, alloc) ==
    [voters |-> [i \in Ballots |-> budget],
     projects |-> mp.set,
     affordability |-> mp.initial_affordability,
     supporter_indices |-> mp.supporter_indices,
     alloc |-> alloc,
     tied_projects |-> <<>>,
     best_afford |-> Inf,
     scanned |-> FALSE]

\* binary_sat: the argument, or for None whether the profile is an approval
\* profile (every profile of this model is one)
BinarySat == IF args.binary_sat = "None" THEN TRUE ELSE args.binary_sat = "True"

NoOutcome == [list |-> FALSE, value |-> <<>>, raised |-> ""]

\* method_of_equal_shares on a profile without ballots: the initial budget per
\* voter, frac(instance.budget_limit, profile.num_ballots()), divides by zero
StartRaises ==
    /\ pc = "call" /\ num_ballots = 0
    /\ pc' = "raised"
    /\ result' = [NoOutcome EXCEPT !.raised = "ZeroDivisionError"]
    /\ UNCHANGED <<ear, phr, gps, cstv, kept, instance, profile, args, sat_profile, initial_budget_per_voter,
                   mes_projects, budget_allocation, previous_outcome,
                   all_budget_allocations, stack, nv>>

\* method_of_equal_shares up to the first call of mes_inner_algo
Start ==
    /\ pc = "call" /\ num_ballots # 0
    /\ LET sp == sat_profile
           supported == {p \in Candidates : RLt(Zero, TotalSat(sp, p))}
           zero_cost == {p \in supported : Cost(p) = 0}
           mp == [set |-> supported \ zero_cost,
                  total_sat |-> [p \in Projects |-> TotalSat(sp, p)],
                  unique_sat_supporter |->
                      [p \in Projects |->
                          IF BinarySat /\ Supporters(sp, p) # <<>>
                          THEN LET s == Supporters(sp, p) IN sp[s[Len(s)]][p]
                          ELSE None],
                  supporter_indices |-> [p \in Projects |-> Supporters(sp, p)],
                  initial_affordability |->
                      [p \in Projects |->
                          IF p \in supported \ zero_cost
                          THEN frac(RInt(Cost(p)), TotalSat(sp, p)) ELSE Zero]]
       IN  \* the projects of cost 0 are appended in the iteration order of the set
           \E free \in Orderings(zero_cost) :
                /\ initial_budget_per_voter' =
                       frac(RInt(instance.budget_limit), RInt(num_ballots))
                /\ mes_projects' = mp
                /\ budget_allocation' = args.initial_budget_allocation \o free
                /\ previous_outcome' =
                       [list |-> FALSE, value |-> <<budget_allocation'>>, raised |-> ""]
                /\ stack' = <<FirstFrame(initial_budget_per_voter', mp, budget_allocation')>>
                /\ pc' = "inner"
    /\ nv' = [nv EXCEPT !.initial_budget = initial_budget_per_voter']
    /\ UNCHANGED <<ear, phr, gps, cstv, kept, instance, profile, args, sat_profile, all_budget_allocations, result>>

-----------------------------------------------------------------------------
(* mes_inner_algo: one call is one frame; the frames of the pending recursive *)
(* calls form the stack, the running call on top.                             *)

Top == stack[Len(stack)]

Below == SubSeq(stack, 1, Len(stack) - 1)

RECURSIVE InsertSorted(_, _)
InsertSorted(p, s) ==
    IF s = <<>> THEN <<p>>
    ELSE IF p < Head(s) THEN <<p>> \o s ELSE <<Head(s)>> \o InsertSorted(p, Tail(s))

RECURSIVE SortAlloc(_)
\* current_alloc.sort(): the projects by name
SortAlloc(a) ==
    IF a = <<>> THEN <<>> ELSE InsertSorted(a[Len(a)], SortAlloc(SubSeq(a, 1, Len(a) - 1)))

\* a faulty variant of Finalize: the irresolute allocations are compared and
\* stored as they were built, without current_alloc.sort()
Finalize_NoSort(alloc) ==
    IF args.resoluteness THEN Append(all_budget_allocations, alloc)
    ELSE IF \E k \in 1..Len(all_budget_allocations) : all_budget_allocations[k] = alloc
         THEN all_budget_allocations
         ELSE Append(all_budget_allocations, alloc)

\* the branch of mes_inner_algo without tied projects: the allocation is final
Finalize(alloc) ==
    IF args.resoluteness THEN Append(all_budget_allocations, alloc)
    ELSE IF \E k \in 1..Len(all_budget_allocations) :
                all_budget_allocations[k] = SortAlloc(alloc)
         THEN all_budget_allocations
         ELSE Append(all_budget_allocations, SortAlloc(alloc))

\* the project objects of the scheme are those of a resolute run and of the
\* first call of an irresolute run: their supporter lists stay sorted as left
SharedProjects(r) ==
    IF args.resoluteness \/ Len(stack) = 1
    THEN [mes_projects EXCEPT !.supporter_indices = r.supporter_indices]
    ELSE mes_projects

\* a faulty variant of Ordered: the irresolute mode keeps only the first tied
\* project, too
Ordered_AlwaysFirst(tied) ==
    IF Len(tied) > 1 THEN SubSeq(TieOrder(tied, args.tie_breaking), 1, 1) ELSE tied

\* a faulty variant of Ordered: the tied projects stay in the order of the scan
Ordered_Unsorted(tied) ==
    IF Len(tied) > 1 /\ args.resoluteness THEN SubSeq(tied, 1, 1) ELSE tied

\* tied_projects after the tie-breaking rule
Ordered(tied) ==
    LET o == IF Len(tied) > 1 THEN TieOrder(tied, args.tie_breaking) ELSE tied
    IN  IF Len(tied) > 1 /\ args.resoluteness THEN SubSeq(o, 1, 1) ELSE o

\* one call of mes_inner_algo up to its first recursive call: the scan of the
\* round, then the allocation is final, or (resolute) the first tied project is
\* selected, or (irresolute) the tied projects wait for their branches
Round ==
    /\ pc = "inner" /\ stack # <<>> /\ ~Top.scanned
    /\ \E order \in ScanOrders(Top) :
        LET r == Scan(Top, order) IN
        IF r.error # ""
        THEN /\ pc' = "raised"
             /\ result' = [NoOutcome EXCEPT !.raised = r.error]
             /\ stack' = <<>>
             /\ UNCHANGED <<all_budget_allocations, mes_projects>>
        ELSE /\ mes_projects' = SharedProjects(r)
             /\ UNCHANGED <<pc, result>>
             /\ IF r.tied_projects = <<>>
                THEN /\ all_budget_allocations' = Finalize(Top.alloc)
                     /\ stack' = Below
                ELSE /\ UNCHANGED all_budget_allocations
                     /\ IF args.resoluteness
                        THEN stack' = <<Select(Top, r, Ordered(r.tied_projects)[1])>>
                        ELSE stack' = Below \o
                                 <<[Top EXCEPT !.projects = r.projects,
                                               !.affordability = r.affordability,
                                               !.supporter_indices = r.supporter_indices,
                                               !.best_afford = r.best_afford,
                                               !.tied_projects = Ordered(r.tied_projects),
                                               !.scanned = TRUE]>>
    /\ UNCHANGED <<ear, phr, gps, cstv, kept, instance, profile, args, sat_profile, initial_budget_per_voter,
                   budget_allocation, previous_outcome, nv>>

\* a faulty variant of Caller: the branch works on the allocation, the projects
\* and the voters of the calling call, not on deep copies
Caller_Shared(f, branch) ==
    [f EXCEPT !.tied_projects = Tail(@), !.voters = branch.voters,
              !.projects = branch.projects, !.alloc = branch.alloc]

\* the calling call while the branch of its first tied project runs: the
\* branch got deep copies, the call keeps its allocation, projects and voters
Caller(f, branch) == [f EXCEPT !.tied_projects = Tail(@)]

\* irresolute: the next tied project of the running call gets its branch, a
\* recursive call on deep copies of the allocation, the projects and the voters
Branch ==
    /\ pc = "inner" /\ stack # <<>> /\ Top.scanned /\ Top.tied_projects # <<>>
    /\ stack' = Below \o
                  <<Caller(Top, Select(Top, Top, Head(Top.tied_projects))),
                    Select(Top, Top, Head(Top.tied_projects))>>
    /\ UNCHANGED <<ear, phr, gps, cstv, kept, instance, profile, args, sat_profile, pc, initial_budget_per_voter,
                   mes_projects, budget_allocation, previous_outcome,
                   all_budget_allocations, result, nv>>

\* irresolute: every tied project had its branch, the call returns
Return ==
    /\ pc = "inner" /\ stack # <<>> /\ Top.scanned /\ Top.tied_projects = <<>>
    /\ stack' = Below
    /\ UNCHANGED <<ear, phr, gps, cstv, kept, instance, profile, args, sat_profile, pc, initial_budget_per_voter,
                   mes_projects, budget_allocation, previous_outcome,
                   all_budget_allocations, result, nv>>

-----------------------------------------------------------------------------
(* The loop of method_of_equal_shares_scheme around the runs of the inner     *)
(* algorithm.                                                                 *)

\* Instance.is_feasible: the allocation costs at most the budget limit
is_feasible(alloc) == total_cost(alloc) <= instance.budget_limit

\* Instance.is_exhaustive: no available project outside the allocation fits the
\* budget that is left
is_exhaustive(alloc, available_projects) ==
    \A p \in available_projects :
        ~(p \notin SeqSet(alloc) /\ total_cost(alloc) + Cost(p) <= instance.budget_limit)

AllocIndices == 1..Len(all_budget_allocations)

\* a faulty variant of Verdict: an infeasible outcome is returned and not the
\* previous one
Verdict_NoRollBack ==
    IF args.voter_budget_increment = None THEN "return"
    ELSE IF \E k \in AllocIndices :
                \/ ~is_feasible(all_budget_allocations[k])
                \/ is_exhaustive(all_budget_allocations[k], mes_projects.set)
         THEN "return"
         ELSE "rerun"

\* a faulty variant of Verdict: an exhaustive outcome does not end the scheme
Verdict_NeverExhaustive ==
    IF args.voter_budget_increment = None THEN "return"
    ELSE IF \E k \in AllocIndices : ~is_feasible(all_budget_allocations[k])
         THEN "previous"
         ELSE "rerun"

\* what the scheme does with the outcome of a finished run: "return" it,
\* return the "previous" one, or "rerun" with larger budgets
Verdict ==
    IF args.resoluteness
    THEN LET outcome == all_budget_allocations[1] IN
         IF args.voter_budget_increment = None THEN "return"
         ELSE IF ~is_feasible(outcome) THEN "previous"
         ELSE IF is_exhaustive(outcome, mes_projects.set) THEN "return"
         ELSE "rerun"
    ELSE IF args.voter_budget_increment = None THEN "return"
         ELSE IF \E k \in AllocIndices : ~is_feasible(all_budget_allocations[k])
         THEN "previous"
         ELSE IF \E k \in AllocIndices :
                     is_exhaustive(all_budget_allocations[k], mes_projects.set)
         THEN "return"
         ELSE "rerun"

\* the outcome of the finished run: the allocation (resolute) or the list
Outcome ==
    IF args.resoluteness
    THEN [list |-> FALSE, value |-> <<all_budget_allocations[1]>>, raised |-> ""]
    ELSE [list |-> TRUE, value |-> all_budget_allocations, raised |-> ""]

\* the scheme returns after a run
SchemeReturn ==
    /\ pc = "inner" /\ stack = <<>>
    /\ Verdict # "rerun"
    /\ result' = IF Verdict = "previous" THEN previous_outcome ELSE Outcome
    /\ pc' = "done"
    /\ UNCHANGED <<ear, phr, gps, cstv, kept, instance, profile, args, sat_profile, initial_budget_per_voter,
                   mes_projects, budget_allocation, previous_outcome,
                   all_budget_allocations, stack, nv>>

\* the iterated variant: every voter's starting budget grows by the increment,
\* the affordabilities are reset and the inner algorithm runs again
SchemeIncrement ==
    /\ pc = "inner" /\ stack = <<>>
    /\ Verdict = "rerun"
    /\ initial_budget_per_voter' =
           RAdd(initial_budget_per_voter, args.voter_budget_increment)
    /\ previous_outcome' = Outcome
    /\ all_budget_allocations' = <<>>
    /\ stack' = <<FirstFrame(initial_budget_per_voter', mes_projects, budget_allocation)>>
    /\ UNCHANGED <<ear, phr, gps, cstv, kept, instance, profile, args, sat_profile, pc, mes_projects,
                   budget_allocation, result, nv>>

\* method_of_equal_shares is called again on the instance, the profile and the
\* options of a finished call, now with binary_sat=False; the result of the
\* first call is kept
CallAgain ==
    /\ pc \in {"done", "raised"} /\ kept.pc = "idle" /\ args.binary_sat # "False"
    /\ kept' = [pc |-> "kept", result |-> result]
    /\ args' = [args EXCEPT !.binary_sat = "False"]
    /\ pc' = "call"
    /\ initial_budget_per_voter' = Zero
    /\ mes_projects' = [set |-> {},
                        total_sat |-> [p \in Projects |-> Zero],
                        unique_sat_supporter |-> [p \in Projects |-> None],
                        supporter_indices |-> [p \in Projects |-> <<>>],
                        initial_affordability |-> [p \in Projects |-> Zero]]
    /\ budget_allocation' = <<>>
    /\ previous_outcome' = NoOutcome
    /\ all_budget_allocations' = <<>>
    /\ stack' = <<>>
    /\ result' = NoOutcome
    /\ nv' = Idle
    /\ UNCHANGED <<ear, phr, gps, cstv, instance, profile, sat_profile>>

-----------------------------------------------------------------------------
(* naive_mes, the reference implementation, and affordability_poor_rich.      *)

\* affordability_poor_rich(voters, project) for the budgets b: the first pass
\* of its loop.  poor is a dict, and poor.update(new_poor) with a non-empty set
\* of voter indices raises TypeError, so the loop never reaches a second pass
affordability_poor_rich(b, p) ==
    LET rich == SeqSet(mes_projects.supporter_indices[p])
        s == mes_projects.supporter_indices[p]
        poor_budget == Zero
        numerator == RSub(RInt(Cost(p)), poor_budget)
        denominator == RSum([k \in 1..Len(s) |-> total_sat_project(s[k], p)])
        affordability == frac(numerator, denominator)
        new_poor == {i \in rich :
                        RLt(total_budget(b, i), RMul(affordability, sat_project(i, p)))}
    IN  IF rich = {} THEN [kind |-> "None", value |-> Zero]
        ELSE IF new_poor = {} THEN [kind |-> "value", value |-> affordability]
        ELSE [kind |-> "TypeError", value |-> Zero]

\* the projects naive_mes starts from: supported and of positive cost
NaiveProjects ==
    {p \in Projects : RLt(Zero, TotalSat(sat_profile, p)) /\ Cost(p) > 0}

\* naive_mes is called on the inputs of a finished resolute run, with the
\* initial budget per voter that run started from
NaiveStart ==
    /\ pc = "done" /\ nv.pc = "idle"
    /\ nv' = [pc |-> "loop",
              voters |-> [i \in Ballots |-> nv.initial_budget],
              remaining |-> NaiveProjects,
              res |-> <<>>,
              initial_budget |-> nv.initial_budget]
    /\ UNCHANGED <<ear, phr, gps, cstv, kept, instance, profile, args, sat_profile, pc, initial_budget_per_voter,
                   mes_projects, budget_allocation, previous_outcome,
                   all_budget_allocations, stack, result>>

\* one pass of the while loop of naive_mes
NaiveRound ==
    /\ nv.pc = "loop"
    /\ LET b == nv.voters
           to_remove == {p \in nv.remaining :
                            RLt(available_budget(b, mes_projects.supporter_indices[p]),
                                RInt(Cost(p)))}
           raised == \E p \in nv.remaining : affordability_poor_rich(b, p).kind = "TypeError"
           remaining == nv.remaining \ to_remove
           affordabilities == [p \in remaining |-> affordability_poor_rich(b, p).value]
           lowest(p) == \A q \in remaining : RLeq(affordabilities[p], affordabilities[q])
       IN  IF raised THEN nv' = [nv EXCEPT !.pc = "TypeError"]
           ELSE IF remaining = {} THEN nv' = [nv EXCEPT !.pc = "done", !.remaining = {}]
           ELSE \* the first project of the set, in its iteration order, at the minimum
                \E selected \in {p \in remaining : lowest(p)} :
                    nv' = [nv EXCEPT
                              !.res = Append(@, selected),
                              !.remaining = remaining \ {selected},
                              !.voters = [i \in Ballots |->
                                  IF i \in SeqSet(mes_projects.supporter_indices[selected])
                                  THEN RSub(b[i], RMin(b[i], RMul(affordabilities[selected],
                                                             sat_project(i, selected))))
                                  ELSE b[i]]]
    /\ UNCHANGED <<ear, phr, gps, cstv, kept, instance, profile, args, sat_profile, pc, initial_budget_per_voter,
                   mes_projects, budget_allocation, previous_outcome,
                   all_budget_allocations, stack, result>>

-----------------------------------------------------------------------------
(* pb_ear (rules/pb_ear.py): an ordinal profile holds rankings, sequences of *)
(* project names without repetition, each with a weight.  Weights, supports  *)
(* and thresholds are exact fractions.                                       *)

\* the classes of the profile argument that derive from AbstractOrdinalProfile
OrdinalKinds == {"OrdinalProfile", "OrdinalMultiProfile"}

\* isinstance(profile, AbstractOrdinalProfile)
IsOrdinal_Any(kind) == TRUE

IsOrdinal(kind) == kind \in OrdinalKinds

\* the rankings over the names N
Rankings(N) ==
    {r \in UNION {[1..k -> N] : k \in 0..Cardinality(N)} :
        \A a, b \in DOMAIN r : a # b => r[a] # r[b]}

\* prefs.index(x): the first position of x
Index(prefs, x) == CHOOSE a \in DOMAIN prefs :
                       /\ prefs[a] = x
                       /\ \A b \in DOMAIN prefs : prefs[b] = x => a <= b

RECURSIVE Scaled(_, _, _)
\* <<floor(q + r / d) * 10^k, remainder>> by long division, r < d
Scaled(qr, d, k) ==
    IF k = 0 THEN qr
    ELSE Scaled(<<10 * qr[1] + (10 * qr[2]) \div d, (10 * qr[2]) % d>>, d, k - 1)

\* round(x, 6) in millionths: the nearest one, an exact half to the even one
Round6(x) ==
    LET n  == Abs(x[1])
        qr == Scaled(<<n \div x[2], n % x[2]>>, x[2], 6)
        up == \/ 2 * qr[2] > x[2]
              \/ 2 * qr[2] = x[2] /\ qr[1] % 2 = 1
        m  == IF up THEN qr[1] + 1 ELSE qr[1]
    IN  IF x[1] < 0 THEN -m ELSE m

\* the projects that are not selected and still fit the remaining budget
available_projects ==
    {p \in DOMAIN ear.project_cost \ ear.selected_projects :
        ear.project_cost[p] <= ear.remaining_budget}

\* the approval set of voter i at rank threshold j
approvals(i) ==
    LET prefs == ear.voters[i]
    IN  IF ear.j <= Len(prefs)
        THEN SeqSet(SubSeq(prefs, 1, Index(prefs, prefs[ear.j])))
        ELSE SeqSet(prefs)

\* the weight of the voters approving p; no support is counted for a selected
\* project
candidate_support(p) ==
    LET approving == SetToSeq({i \in DOMAIN ear.voters :
                                   p \in approvals(i) /\ p \notin ear.selected_projects})
    IN  RSum([k \in 1..Len(approving) |-> ear.voter_weights[approving[k]]])

\* (initial_n * project_cost[p]) / budget, for budget # 0
Threshold(p) == frac(RInt(ear.initial_n * ear.project_cost[p]), RInt(ear.budget))

\* the available projects whose support reaches their threshold
C_star == {c \in available_projects :
              Round6(candidate_support(c)) >= Round6(Threshold(c))}

\* the longest ranking of the profile
MaxRank == CHOOSE n \in {Len(ear.voters[i]) : i \in DOMAIN ear.voters} :
               \A i \in DOMAIN ear.voters : Len(ear.voters[i]) <= n

\* the weights after the selection of c_star: its approvers give up the
\* threshold of c_star in proportion to their weights
Reduced(c_star) ==
    LET N_prime == {i \in DOMAIN ear.voters : c_star \in approvals(i)}
        members == SetToSeq(N_prime)
        sum_supporters == RSum([k \in 1..Len(members) |-> ear.voter_weights[members[k]]])
        weight_fraction == IF RLt(Zero, sum_supporters)
                           THEN frac(Threshold(c_star), sum_supporters)
                           ELSE Zero
    IN  [i \in DOMAIN ear.voters |->
            IF i \in N_prime
            THEN RMul(ear.voter_weights[i], RSub(RInt(1), weight_fraction))
            ELSE ear.voter_weights[i]]

Spend_Nothing(c_star) == ear.remaining_budget

\* remaining_budget -= project_cost[c_star]
Spend(c_star) == ear.remaining_budget - ear.project_cost[c_star]

\* the allocation built at the end: the selected projects sorted by name
Allocation == SetToSeq(ear.selected_projects)

\* pb_ear up to its loop: the check of the profile, the return for a profile
\* without voters, and the reading of the instance and the profile
EarStart ==
    /\ ear.pc = "call"
    /\ IF ~IsOrdinal(ear.kind)
       THEN ear' = [ear EXCEPT !.pc = "raised", !.raised = "ValueError"]
       ELSE IF Len(profile.ballot) = 0
       THEN ear' = [ear EXCEPT !.pc = "done", !.result = <<>>]
       ELSE ear' = [ear EXCEPT !.pc = "loop",
                               !.budget = instance.budget_limit,
                               !.project_cost = instance.cost,
                               !.voters = profile.ballot,
                               !.initial_n = Sum(Ballots, profile.mult),
                               !.voter_weights = [i \in Ballots |-> RInt(profile.mult[i])],
                               !.j = 1,
                               !.selected_projects = {},
                               !.remaining_budget = instance.budget_limit]
    /\ UNCHANGED <<phr, gps, cstv, kept, instance, profile, args, sat_profile, pc, initial_budget_per_voter,
                   mes_projects, budget_allocation, previous_outcome,
                   all_budget_allocations, stack, result, nv>>

\* one pass of the loop of pb_ear; a pass that breaks goes on to the return
EarRound ==
    /\ ear.pc = "loop"
    /\ IF available_projects = {}
       THEN ear' = [ear EXCEPT !.pc = "done", !.result = Allocation]
       ELSE IF ear.budget = 0
       THEN \* the threshold column of the support table divides by the budget
            ear' = [ear EXCEPT !.pc = "raised", !.raised = "ZeroDivisionError"]
       ELSE IF C_star = {}
       THEN IF ear.j > MaxRank
            THEN ear' = [ear EXCEPT !.pc = "done", !.result = Allocation]
            ELSE ear' = [ear EXCEPT !.j = @ + 1]
       ELSE \* next(iter(C_star)): any project of the set
            \E c_star \in C_star :
                ear' = [ear EXCEPT !.selected_projects = @ \cup {c_star},
                                   !.remaining_budget = Spend(c_star),
                                   !.voter_weights = Reduced(c_star)]
    /\ UNCHANGED <<phr, gps, cstv, kept, instance, profile, args, sat_profile, pc, initial_budget_per_voter,
                   mes_projects, budget_allocation, previous_outcome,
                   all_budget_allocations, stack, result, nv>>

-----------------------------------------------------------------------------
(* sequential_phragmen (rules/phragmen.py): one call of aux is one frame; the *)
(* frames of the pending calls form phr.stack, the running call on top.       *)

\* profile.approval_score(p): the voters approving p, with multiplicity
approval_score(p) ==
    Sum({i \in Ballots : p \in profile.ballot[i]}, profile.mult)

\* supps[p]: the voters whose ballot holds p
supps(p) == SetToSeq({i \in Ballots : p \in profile.ballot[i]})

\* the projects aux starts from: outside the initial allocation and, alone,
\* within the budget limit
initial_projects ==
    {p \in Projects : p \notin SeqSet(args.initial_budget_allocation)
                      /\ Cost(p) <= instance.budget_limit}

\* the load every supporter of p would carry if p were selected next
new_maxload(f, p) ==
    IF approval_score(p) = 0 THEN Inf
    ELSE LET s == supps(p)
             loads == RSum([k \in 1..Len(s) |->
                               RMul(RInt(profile.mult[s[k]]), f.load[s[k]])])
         IN  frac(RAdd(loads, RInt(Cost(p))), RInt(approval_score(p)))

\* the smallest new maximum load over the projects of the call
min_new_maxload(f) ==
    CHOOSE x \in {new_maxload(f, p) : p \in f.projects} :
        \A q \in f.projects : RLeq(x, new_maxload(f, q))

\* the projects that attain it
arg_min_new_maxload(f) ==
    {p \in f.projects : new_maxload(f, p) = min_new_maxload(f)}

OverBudget_Never(f) == FALSE

\* one of them does not fit the budget limit on top of the current cost
OverBudget(f) ==
    \E p \in arg_min_new_maxload(f) : f.cost + Cost(p) > instance.budget_limit

\* alloc.sort(), and the allocation is stored unless it is already there
PhrFinalize(allocs, alloc) ==
    IF \E k \in 1..Len(allocs) : allocs[k] = SortAlloc(alloc) THEN allocs
    ELSE Append(allocs, SortAlloc(alloc))

\* a faulty variant of PhrSelect: every voter gets the new load, the supporters
\* of p and the others
PhrSelect_EveryVoter(f, p) ==
    [projects |-> f.projects \ {p},
     load |-> [i \in Ballots |-> min_new_maxload(f)],
     alloc |-> Append(f.alloc, p),
     cost |-> f.cost + Cost(p),
     tied_projects |-> <<>>,
     scanned |-> FALSE]

\* the call of aux after the selection of p: its supporters carry the new
\* load, p moves from the projects to the allocation
PhrSelect(f, p) ==
    [projects |-> f.projects \ {p},
     load |-> [i \in Ballots |-> IF p \in profile.ballot[i]
                                 THEN min_new_maxload(f) ELSE f.load[i]],
     alloc |-> Append(f.alloc, p),
     cost |-> f.cost + Cost(p),
     tied_projects |-> <<>>,
     scanned |-> FALSE]

\* the call of aux ends without a selection
PhrFinal(f) == f.projects = {} \/ OverBudget(f)

\* tie_breaking.order(inst, prof, arg_min_new_maxload)
PhrTied(f, rank) == TieOrder(SetToSeq(arg_min_new_maxload(f)), rank)

PhrBranches_SkipFirst(tied) == Tail(tied)

\* the tied projects the irresolute mode goes through
PhrBranches(tied) == tied

PhrTop == phr.stack[Len(phr.stack)]

PhrBelow == SubSeq(phr.stack, 1, Len(phr.stack) - 1)

\* the first call of aux: every voter with load 0, the initial allocation and
\* its cost
PhrFirstFrame ==
    [projects |-> initial_projects,
     load |-> [i \in Ballots |-> Zero],
     alloc |-> args.initial_budget_allocation,
     cost |-> total_cost(args.initial_budget_allocation),
     tied_projects |-> <<>>,
     scanned |-> FALSE]

\* sequential_phragmen up to the first call of aux; the profile of a call is an
\* approval profile, the check of its class passes
PhrStart ==
    /\ phr.pc = "call"
    /\ phr' = [phr EXCEPT !.pc = "aux", !.stack = <<PhrFirstFrame>>]
    /\ UNCHANGED <<ear, gps, cstv, kept, instance, profile, args, sat_profile, pc, initial_budget_per_voter,
                   mes_projects, budget_allocation, previous_outcome,
                   all_budget_allocations, stack, result, nv>>

\* a call of aux up to its recursive calls: the resolute mode goes on with the
\* call for the first tied project, the irresolute mode keeps the tied ones
PhrRound ==
    /\ phr.pc = "aux" /\ phr.stack # <<>> /\ ~PhrTop.scanned
    /\ IF PhrFinal(PhrTop)
       THEN phr' = [phr EXCEPT !.allocs = PhrFinalize(@, PhrTop.alloc),
                               !.stack = PhrBelow]
       ELSE LET tied == PhrTied(PhrTop, args.tie_breaking)
            IN  IF args.resoluteness
                THEN phr' = [phr EXCEPT !.stack = <<PhrSelect(PhrTop, tied[1])>>]
                ELSE phr' = [phr EXCEPT !.stack =
                                PhrBelow \o <<[PhrTop EXCEPT
                                                 !.tied_projects = PhrBranches(tied),
                                                 !.scanned = TRUE]>>]
    /\ UNCHANGED <<ear, gps, cstv, kept, instance, profile, args, sat_profile, pc, initial_budget_per_voter,
                   mes_projects, budget_allocation, previous_outcome,
                   all_budget_allocations, stack, result, nv>>

\* the irresolute loop over the tied projects: the next recursive call
PhrBranch ==
    /\ phr.pc = "aux" /\ phr.stack # <<>> /\ PhrTop.scanned /\ PhrTop.tied_projects # <<>>
    /\ phr' = [phr EXCEPT !.stack =
                  PhrBelow \o <<[PhrTop EXCEPT !.tied_projects = Tail(@)],
                                PhrSelect(PhrTop, Head(PhrTop.tied_projects))>>]
    /\ UNCHANGED <<ear, gps, cstv, kept, instance, profile, args, sat_profile, pc, initial_budget_per_voter,
                   mes_projects, budget_allocation, previous_outcome,
                   all_budget_allocations, stack, result, nv>>

\* the loop is over: the call returns
PhrReturn ==
    /\ phr.pc = "aux" /\ phr.stack # <<>> /\ PhrTop.scanned /\ PhrTop.tied_projects = <<>>
    /\ phr' = [phr EXCEPT !.stack = PhrBelow]
    /\ UNCHANGED <<ear, gps, cstv, kept, instance, profile, args, sat_profile, pc, initial_budget_per_voter,
                   mes_projects, budget_allocation, previous_outcome,
                   all_budget_allocations, stack, result, nv>>

\* the first call of aux has returned: the first allocation in resolute mode,
\* the list of them otherwise
PhrEnd ==
    /\ phr.pc = "aux" /\ phr.stack = <<>>
    /\ phr' = [phr EXCEPT
                 !.pc = IF args.resoluteness /\ phr.allocs = <<>> THEN "raised" ELSE "done",
                 !.result = IF args.resoluteness
                            THEN IF phr.allocs = <<>>
                                 THEN [list |-> FALSE, value |-> <<>>, raised |-> "IndexError"]
                                 ELSE [list |-> FALSE, value |-> <<phr.allocs[1]>>, raised |-> ""]
                            ELSE [list |-> TRUE, value |-> phr.allocs, raised |-> ""]]
    /\ UNCHANGED <<ear, gps, cstv, kept, instance, profile, args, sat_profile, pc, initial_budget_per_voter,
                   mes_projects, budget_allocation, previous_outcome,
                   all_budget_allocations, stack, result, nv>>

-----------------------------------------------------------------------------
(* gpseq (greedy_sequential_phragmen): the approved projects by minimal load, *)
(* then the other projects by name.                                           *)

\* the voters whose ballot holds p
approvers(p) == {i \in Ballots : p \in profile.ballot[i]}

\* the keys of approvers_map: the available projects that fit the remaining
\* budget and are approved by a voter
approvers_map ==
    {p \in gps.available_projects :
        Cost(p) <= gps.remaining_budget /\ approvers(p) # {}}

\* compute_uniform_load: the largest load when the cost is shared equally
\* among the approvers and the other voters carry 0.0
compute_uniform_load(p) ==
    IF approvers(p) = {} THEN Inf
    ELSE LET per_voter == frac(RInt(Cost(p)), RInt(Cardinality(approvers(p))))
         IN  IF approvers(p) # Ballots /\ RLt(per_voter, Zero) THEN Zero ELSE per_voter

\* what the voters of V must carry alone: the projects of W that only voters
\* of V approve
CarriedBy(W, V) == set_cost({c \in W : approvers(c) \subseteq V})

\* compute_optimal_load: the value of the linear program, the smallest maximal
\* load over all ways to share the cost of each project of W among its
\* approvers, which is the largest average a group of voters must carry alone
compute_optimal_load(W) ==
    LET groups == (SUBSET Ballots) \ {{}}
        z(V) == frac(RInt(CarriedBy(W, V)), RInt(Cardinality(V)))
    IN  CHOOSE x \in {z(V) : V \in groups} : \A V \in groups : RLeq(z(V), x)

\* a mode gpseq knows
ValidMode(mode) == mode \in {"uniform", "optimal"}

project_to_load(p) ==
    IF gps.mode = "uniform" THEN compute_uniform_load(p)
    ELSE compute_optimal_load(SeqSet(gps.selected_projects) \cup {p})

\* the projects of approvers_map with the minimal load
candidates ==
    {p \in approvers_map :
        \A q \in approvers_map : RLeq(project_to_load(p), project_to_load(q))}

\* tie_breaking.untie(instance, profile, candidates): the candidate the rule
\* orders first
untie(S, rank) == CHOOSE p \in S : \A q \in S : rank[p] <= rank[q]

\* the projects the pass may choose: in mode optimal the loads come from a
\* numeric solver, which separates equal loads one way or the other
Chosen ==
    IF gps.mode = "uniform" THEN {untie(candidates, lexico_tie_breaking)}
    ELSE candidates

\* a faulty variant of Fits: every project is taken
Fits_Always(p, remaining_budget) == TRUE

\* p.cost <= remaining_budget
Fits(p, remaining_budget) == Cost(p) <= remaining_budget

\* gpseq up to its loop: multiprofiles and negative costs are rejected
GpsStart ==
    /\ gps.pc = "call"
    /\ IF gps.multiprofile \/ \E p \in Projects : Cost(p) < 0
       THEN gps' = [gps EXCEPT !.pc = "raised", !.raised = "ValueError"]
       ELSE gps' = [gps EXCEPT !.pc = "loop",
                               !.remaining_budget = instance.budget_limit,
                               !.selected_projects = <<>>,
                               !.available_projects = Projects]
    /\ UNCHANGED <<ear, phr, cstv, kept, instance, profile, args, sat_profile, pc, initial_budget_per_voter,
                   mes_projects, budget_allocation, previous_outcome,
                   all_budget_allocations, stack, result, nv>>

\* one pass of the while loop: it breaks when no approved project fits, then
\* checks the mode, then selects a project of minimal load
GpsRound ==
    /\ gps.pc = "loop"
    /\ IF approvers_map = {}
       THEN gps' = [gps EXCEPT !.pc = "fill",
                               !.unseen = SetToSeq(gps.available_projects)]
       ELSE IF ~ValidMode(gps.mode)
       THEN gps' = [gps EXCEPT !.pc = "raised", !.raised = "ValueError"]
       ELSE \E chosen \in Chosen :
                gps' = [gps EXCEPT
                          !.selected_projects = Append(@, chosen),
                          !.remaining_budget = @ - Cost(chosen),
                          !.available_projects = @ \ {chosen}]
    /\ UNCHANGED <<ear, phr, cstv, kept, instance, profile, args, sat_profile, pc, initial_budget_per_voter,
                   mes_projects, budget_allocation, previous_outcome,
                   all_budget_allocations, stack, result, nv>>

\* one pass of the loop over sorted(available_projects, key=name), and the
\* return after the last
GpsFill ==
    /\ gps.pc = "fill"
    /\ IF gps.unseen = <<>>
       THEN gps' = [gps EXCEPT !.pc = "done", !.result = gps.selected_projects]
       ELSE LET p == Head(gps.unseen) IN
            IF Fits(p, gps.remaining_budget)
            THEN gps' = [gps EXCEPT !.selected_projects = Append(@, p),
                                    !.remaining_budget = @ - Cost(p),
                                    !.unseen = Tail(@)]
            ELSE gps' = [gps EXCEPT !.unseen = Tail(@)]
    /\ UNCHANGED <<ear, phr, cstv, kept, instance, profile, args, sat_profile, pc, initial_budget_per_voter,
                   mes_projects, budget_allocation, previous_outcome,
                   all_budget_allocations, stack, result, nv>>

-----------------------------------------------------------------------------
(* cstv_budgeting with elimination_with_transfers and reverse_eliminations:   *)
(* the combination ewt (select_project_GE, is_eligible_GE) and the            *)
(* combination ewtc (select_project_GSC, is_eligible_GSC).                    *)
(* A donor is a cumulative ballot: a donation for every project.              *)

\* sum(donor.values())
DonorTotal(d) == RSum(d)

\* sum(sum(donor.values()) for donor in donors)
TotalDonations(donors) == RSum([i \in DOMAIN donors |-> DonorTotal(donors[i])])

\* sum(donor.get(p.name, 0) for donor in donors)
Support(donors, p) == RSum([i \in DOMAIN donors |-> donors[i][p]])

\* the excess support of p
Excess(donors, p) == RSub(Support(donors, p), RInt(Cost(p)))

\* is_eligible_GE: the projects whose support covers their cost
is_eligible_GE(donors, projects) ==
    {p \in projects : RLeq(Zero, Excess(donors, p))}

\* select_project_GE: a project of maximal excess support; among equal ones
\* the first in the iteration order of the projects
select_project_GE(donors, projects) ==
    {p \in projects : \A q \in projects : RLeq(Excess(donors, q), Excess(donors, p))}

\* is_eligible_GSC: the projects whose support is at least once their cost
is_eligible_GSC(donors, projects) ==
    {p \in projects : RLeq(RInt(1), frac(Support(donors, p), RInt(Cost(p))))}

\* select_project_GSC: a project of maximal ratio of support to cost
select_project_GSC(donors, projects) ==
    {p \in projects : \A q \in projects :
        RLeq(frac(Support(donors, q), RInt(Cost(q))), frac(Support(donors, p), RInt(Cost(p))))}

\* eligible_fn of the combination
eligible_fn(combination, donors, projects) ==
    IF combination = "ewt" THEN is_eligible_GE(donors, projects)
    ELSE is_eligible_GSC(donors, projects)

\* project_to_fund_selection_procedure of the combination
project_to_fund_selection_procedure(combination, donors, projects) ==
    IF combination = "ewt" THEN select_project_GE(donors, projects)
    ELSE select_project_GSC(donors, projects)

\* the projects elimination_with_transfers may eliminate: minimal excess support
min_project(donors, projects) ==
    {p \in projects : \A q \in projects : RLeq(Excess(donors, p), Excess(donors, q))}

\* a faulty variant of distribute_project_support: the donations on the
\* eliminated project are dropped
distribute_project_support_Drop(donors, eliminated) ==
    [i \in DOMAIN donors |-> [donors[i] EXCEPT ![eliminated] = Zero]]

\* distribute_project_support: every donor moves the donation on the eliminated
\* project to the other entries of the ballot, in proportion to what they hold;
\* a donor who holds nothing else keeps it where it is
distribute_project_support(donors, eliminated) ==
    [i \in DOMAIN donors |->
        LET d == donors[i]
            toDistribute == d[eliminated]
            total == RSub(DonorTotal(d), toDistribute)
        IN  IF total = Zero THEN d
            ELSE [key \in DOMAIN d |->
                    IF key = eliminated THEN Zero
                    ELSE RAdd(d[key], RMul(toDistribute, frac(d[key], total)))]]

\* excess_redistribution_procedure: every donor keeps the share 1 - gama of the
\* donation on the funded project and moves it to the other entries of the
\* ballot in proportion; a donor who holds nothing else leaves it on the project
excess_redistribution_procedure(donors, max_project, gama) ==
    [i \in DOMAIN donors |->
        LET d == donors[i]
            toDistribute == RMul(d[max_project], RSub(RInt(1), gama))
            total == RSub(DonorTotal(d), d[max_project])
        IN  IF total = Zero THEN [d EXCEPT ![max_project] = toDistribute]
            ELSE [key \in DOMAIN d |->
                    IF key = max_project THEN Zero
                    ELSE RAdd(d[key], RMul(toDistribute, frac(d[key], total)))]]

\* the donations after the funding of p: an excess above 0.01 is redistributed,
\* otherwise the donations on p are reset
Funded(donors, p) ==
    LET excess_support == Excess(donors, p)
    IN  IF RLt(frac(RInt(1), RInt(100)), excess_support)
        THEN excess_redistribution_procedure(donors, p,
                 frac(RInt(Cost(p)), RAdd(excess_support, RInt(Cost(p)))))
        ELSE [i \in DOMAIN donors |-> [donors[i] EXCEPT ![p] = Zero]]

RECURSIVE reverse_eliminations(_, _, _)
\* reverse_eliminations over the eliminated projects in the order they are
\* iterated: each one that fits the budget is added and paid
reverse_eliminations(selected, order, budget) ==
    IF order = <<>> THEN selected
    ELSE IF RLeq(RInt(Cost(Head(order))), budget)
         THEN reverse_eliminations(selected \cup {Head(order)}, Tail(order),
                                   RSub(budget, RInt(Cost(Head(order)))))
         ELSE reverse_eliminations(selected, Tail(order), budget)

\* the results the post-procedure can return: one for every iteration order of
\* the eliminated projects
PostProcedure(selected, eliminated, budget) ==
    {reverse_eliminations(selected, order, budget) : order \in Orderings(eliminated)}

\* cstv_budgeting up to its loop: it returns None unless all donors donate the
\* same total
CstvStart ==
    /\ cstv.pc = "call"
    /\ LET donors == [i \in Ballots |-> [p \in Projects |-> RInt(profile.ballot[i][p])]]
       IN  IF Cardinality({DonorTotal(donors[i]) : i \in Ballots}) # 1
           THEN cstv' = [cstv EXCEPT !.pc = "done", !.result = [none |-> TRUE, value |-> {}]]
           ELSE cstv' = [cstv EXCEPT !.pc = "loop", !.donors = donors,
                                     !.projects = Projects, !.S = {},
                                     !.eliminated_projects = {}]
    /\ UNCHANGED <<ear, phr, gps, kept, instance, profile, args, sat_profile, pc, initial_budget_per_voter,
                   mes_projects, budget_allocation, previous_outcome,
                   all_budget_allocations, stack, result, nv>>

\* the head of the while loop: the budget is what the donors hold; without
\* projects the post-procedure runs and its result is returned; is_eligible_GSC
\* divides by the cost of every project
CstvLoop ==
    /\ cstv.pc = "loop"
    /\ LET budget == TotalDonations(cstv.donors) IN
       IF cstv.projects = {}
       THEN \E final \in PostProcedure(cstv.S, cstv.eliminated_projects, budget) :
                cstv' = [cstv EXCEPT !.pc = "done", !.budget = budget,
                                     !.result = [none |-> FALSE, value |-> final]]
       ELSE IF cstv.combination = "ewtc" /\ \E p \in cstv.projects : Cost(p) = 0
       THEN cstv' = [cstv EXCEPT !.pc = "raised", !.budget = budget,
                                 !.raised = "ZeroDivisionError"]
       ELSE cstv' = [cstv EXCEPT !.pc = "select", !.budget = budget]
    /\ UNCHANGED <<ear, phr, gps, kept, instance, profile, args, sat_profile, pc, initial_budget_per_voter,
                   mes_projects, budget_allocation, previous_outcome,
                   all_budget_allocations, stack, result, nv>>

\* no project is eligible: elimination_with_transfers eliminates a project of
\* minimal excess support and moves its donations, or, with one project left,
\* eliminates it and the post-procedure ends the run
CstvEliminate ==
    /\ cstv.pc = "select"
    /\ eligible_fn(cstv.combination, cstv.donors, cstv.projects) = {}
    /\ IF Cardinality(cstv.projects) < 2
       THEN \E final \in PostProcedure(cstv.S, cstv.eliminated_projects \cup cstv.projects,
                                        cstv.budget) :
                cstv' = [cstv EXCEPT !.pc = "done",
                                     !.eliminated_projects = @ \cup cstv.projects,
                                     !.projects = {},
                                     !.result = [none |-> FALSE, value |-> final]]
       ELSE \E p \in min_project(cstv.donors, cstv.projects) :
                cstv' = [cstv EXCEPT !.donors = distribute_project_support(@, p),
                                     !.projects = @ \ {p},
                                     !.eliminated_projects = @ \cup {p}]
    /\ UNCHANGED <<ear, phr, gps, kept, instance, profile, args, sat_profile, pc, initial_budget_per_voter,
                   mes_projects, budget_allocation, previous_outcome,
                   all_budget_allocations, stack, result, nv>>

\* a project is eligible: one of maximal excess support is funded
CstvFund ==
    /\ cstv.pc = "select"
    /\ eligible_fn(cstv.combination, cstv.donors, cstv.projects) # {}
    /\ \E p \in project_to_fund_selection_procedure(cstv.combination, cstv.donors,
                   eligible_fn(cstv.combination, cstv.donors, cstv.projects)) :
          cstv' = [cstv EXCEPT !.pc = "loop",
                               !.donors = Funded(@, p),
                               !.S = @ \cup {p},
                               !.projects = @ \ {p},
                               !.budget = RSub(@, RInt(Cost(p)))]
    /\ UNCHANGED <<ear, phr, gps, kept, instance, profile, args, sat_profile, pc, initial_budget_per_voter,
                   mes_projects, budget_allocation, previous_outcome,
                   all_budget_allocations, stack, result, nv>>

-----------------------------------------------------------------------------
(* Specifications. *)

NoAllocation == {<<>>}

Resolute == {TRUE}

AnyMode == {TRUE, FALSE}

\* single-pass method of equal shares with an empty initial allocation
\* the reverse of the default rule
reverse_tie_breaking == [p \in Projects |-> NumProjects + 1 - p]

Init == InitWith(0..MaxCost, {MaxBudget}, {1}, SatClasses, {"None"},
                 AnyMode, {lexico_tie_breaking, reverse_tie_breaking}, NoAllocation, {None})

Next == Start \/ Round \/ Branch \/ Return \/ SchemeReturn

Spec == Init /\ [][Next]_vars

\* a resolute run, then naive_mes on the same inputs; ballots with multiplicities
InitNaive == InitWith(0..MaxCost, {MaxBudget}, 1..MaxMult, {"Cardinality_Sat"}, {"None"},
                      Resolute, {lexico_tie_breaking}, NoAllocation, {None})

NextNaive == Start \/ Round \/ SchemeReturn \/ NaiveStart \/ NaiveRound

SpecNaive == InitNaive /\ [][NextNaive]_vars

\* the increment of the iterated variant
UnitIncrement == RInt(1)

\* single-pass and iterated runs, resolute and irresolute
InitIterated == InitWith(1..MaxCost, {MaxBudget}, {1}, {"Cardinality_Sat", "Cost_Sat"}, {"None"},
                         AnyMode, {lexico_tie_breaking}, NoAllocation,
                         {None, UnitIncrement})

NextIterated == Start \/ Round \/ Branch \/ Return \/ SchemeReturn \/ SchemeIncrement

SpecIterated == InitIterated /\ [][NextIterated]_vars

\* runs seeded with an initial allocation of one project
OneProject == {<<p>> : p \in Projects}

InitSeeded == InitWith(0..MaxCost, {MaxBudget}, {1}, {"Cardinality_Sat"}, {"None"},
                       AnyMode, {lexico_tie_breaking}, OneProject, {None})

SpecSeeded == InitSeeded /\ [][Next]_vars

\* an initial allocation of two projects
TwoProjects == {<<2, 3>>}

\* resolute iterated runs, with and without an initial allocation
InitResolute == InitWith(0..MaxCost, {MaxBudget}, {1}, {"Cardinality_Sat", "Cost_Sat"},
                         {"None"}, Resolute, {lexico_tie_breaking},
                         NoAllocation \cup TwoProjects, {UnitIncrement})

NextResolute == Start \/ Round \/ SchemeReturn \/ SchemeIncrement

SpecResolute == InitResolute /\ [][NextResolute]_vars

\* irresolute iterated runs, with and without an initial allocation
InitIrresolute == InitWith(1..MaxCost, {MaxBudget}, {1}, {"Cardinality_Sat"}, {"None"},
                           {FALSE}, {lexico_tie_breaking}, NoAllocation \cup OneProject,
                           {UnitIncrement})

SpecIrresolute == InitIrresolute /\ [][NextIterated]_vars

\* calls on small inputs, down to a profile without ballots and an instance
\* without projects
InitSmall ==
    /\ InputsWith(0..NumProjects - 1, 0..NumBallots, 0..MaxCost, {MaxBudget}, {1},
                  {"Cardinality_Sat"}, {"None"}, AnyMode, {lexico_tie_breaking},
                  NoAllocation, {None, UnitIncrement})
    /\ pc = "call"
    /\ SchemeIdle

NextSmall == StartRaises \/ Next \/ SchemeIncrement

SpecSmall == InitSmall /\ [][NextSmall]_vars

\* resolute calls with the default binary_sat, each followed by the same call
\* with binary_sat=False
InitBinary == InitWith(0..MaxCost, {MaxBudget}, {1}, SatClasses, {"None"}, Resolute, {lexico_tie_breaking}, NoAllocation, {None})

NextBinary == Start \/ Round \/ SchemeReturn \/ CallAgain

SpecBinary == InitBinary /\ [][NextBinary]_vars

\* calls of pb_ear: an instance without projects or with NumProjects of them
\* and a budget limit of 0, of 1, or above every cost; a profile of any class,
\* the ordinal ones with up to NumBallots weighted rankings.  A plain
\* OrdinalProfile is taken without ballots only, and the profiles of the other
\* classes with one ballot at most.
NoArguments == [sat_class |-> "Cardinality_Sat", binary_sat |-> "None", resoluteness |-> TRUE,
                tie_breaking |-> <<>>, initial_budget_allocation |-> <<>>,
                voter_budget_increment |-> None]

ProfileKinds == OrdinalKinds \cup {"ApprovalProfile", "str"}

EarBudgets == {0, 1, MaxBudget}

EarCosts == 0..(MaxCost - 1)

InitEar ==
    /\ \E np \in {0, NumProjects} : \E cost \in [1..np -> EarCosts], limit \in EarBudgets :
            instance = [cost |-> cost, budget_limit |-> limit]
    /\ \E nb \in 0..NumBallots, kind \in ProfileKinds :
         \E ballot \in [1..nb -> Rankings(1..NumProjects)], mult \in [1..nb -> 1..MaxMult] :
            /\ \A a, b \in 1..nb : a # b => ballot[a] # ballot[b]
            /\ kind = "OrdinalProfile" => nb = 0
            /\ kind \notin OrdinalKinds => nb <= 1
            /\ profile = [ballot |-> ballot, mult |-> mult]
            /\ ear = [EarIdle EXCEPT !.pc = "call", !.kind = kind]
            /\ OthersIdle
    /\ args = NoArguments
    /\ sat_profile = <<>>
    /\ pc = "idle"
    /\ MesIdle
    /\ phr = PhrIdle

NextEar == EarStart \/ EarRound

SpecEar == InitEar /\ [][NextEar]_vars

\* calls of pb_ear with a budget limit in the millions: every project costs
\* just above half of the budget limit, or more than the budget limit
InitEarLarge ==
    /\ \E cost \in [1..NumProjects -> {LargeCost, 2 * LargeCost}] :
            instance = [cost |-> cost, budget_limit |-> LargeBudget]
    /\ \E nb \in 1..NumBallots :
         \E ballot \in [1..nb -> Rankings(1..NumProjects)], mult \in [1..nb -> 1..MaxMult] :
            /\ \A a, b \in 1..nb : a # b => ballot[a] # ballot[b]
            /\ profile = [ballot |-> ballot, mult |-> mult]
    /\ ear = [EarIdle EXCEPT !.pc = "call", !.kind = "OrdinalMultiProfile"]
    /\ OthersIdle
    /\ args = NoArguments
    /\ sat_profile = <<>>
    /\ pc = "idle"
    /\ MesIdle
    /\ phr = PhrIdle

SpecEarLarge == InitEarLarge /\ [][NextEar]_vars

\* the modes gpseq is called with: the two it knows and another string
GpsModes == {"uniform", "optimal", "greedy"}

GpsBudgets == {1, MaxBudget}

\* calls of gpseq: projects of cost -1 to MaxCost - 1, approval ballots of
\* NumBallots voters, a profile or a multiprofile
InitGps ==
    /\ \E cost \in [1..NumProjects -> (-1)..(MaxCost - 1)], limit \in GpsBudgets :
            instance = [cost |-> cost, budget_limit |-> limit]
    /\ \E ballot \in [1..NumBallots -> SUBSET Projects] :
            profile = [ballot |-> ballot, mult |-> [i \in 1..NumBallots |-> 1]]
    /\ \E mode \in GpsModes, multi \in BOOLEAN :
            gps = [GpsIdle EXCEPT !.pc = "call", !.mode = mode, !.multiprofile = multi]
    /\ cstv = CstvIdle /\ kept = NothingKept
    /\ args = NoArguments
    /\ sat_profile = <<>>
    /\ pc = "idle"
    /\ MesIdle
    /\ ear = EarIdle
    /\ phr = PhrIdle

NextGps == GpsStart \/ GpsRound \/ GpsFill

SpecGps == InitGps /\ [][NextGps]_vars

\* calls of cstv_budgeting: NumBallots donors who give up to MaxDonation to
\* each project
InitCstv ==
    /\ \E cost \in [1..NumProjects -> 0..MaxCost] :
            instance = [cost |-> cost, budget_limit |-> MaxBudget]
    /\ \E ballot \in [1..NumBallots -> [Projects -> 0..MaxDonation]] :
            profile = [ballot |-> ballot, mult |-> [i \in 1..NumBallots |-> 1]]
    /\ \E combination \in {"ewt", "ewtc"} :
            cstv = [CstvIdle EXCEPT !.pc = "call", !.combination = combination]
    /\ gps = GpsIdle /\ kept = NothingKept
    /\ args = NoArguments
    /\ sat_profile = <<>>
    /\ pc = "idle"
    /\ MesIdle
    /\ ear = EarIdle
    /\ phr = PhrIdle

NextCstv == CstvStart \/ CstvLoop \/ CstvEliminate \/ CstvFund

SpecCstv == InitCstv /\ [][NextCstv]_vars

FirstProject == {<<1>>}

\* calls of sequential_phragmen, resolute and irresolute, with and without an
\* initial allocation of one project, on profiles with multiplicities
InitPhragmen ==
    /\ InputsWith({NumProjects}, {NumBallots}, 1..MaxCost, {MaxBudget}, 1..MaxMult,
                  {"Cardinality_Sat"}, {"None"}, AnyMode, {lexico_tie_breaking},
                  NoAllocation \cup FirstProject, {None})
    /\ pc = "idle"
    /\ MesIdle
    /\ ear = EarIdle
    /\ phr = [PhrIdle EXCEPT !.pc = "call"]
    /\ OthersIdle

NextPhragmen == PhrStart \/ PhrRound \/ PhrBranch \/ PhrReturn \/ PhrEnd

SpecPhragmen == InitPhragmen /\ [][NextPhragmen]_vars

-----------------------------------------------------------------------------
(* Budget feasibility of single-pass runs. *)

Returned == pc = "done"

SinglePass ==
    args.initial_budget_allocation = <<>> /\ args.voter_budget_increment = None

\* C1: with an empty initial allocation and no voter_budget_increment, every
\* allocation method_of_equal_shares returns (resolute or irresolute) costs at
\* most instance.budget_limit.
C1_BudgetRespected ==
    (Returned /\ SinglePass) =>
        \A k \in 1..Len(result.value) :
            total_cost(result.value[k]) <= instance.budget_limit

-----------------------------------------------------------------------------
(* The reference implementation and the poor/rich affordability. *)

NaiveEnded == nv.pc \in {"done", "TypeError"}

\* C2: naive_mes returns the same final allocation as the optimized algorithm
\* in resolute mode on the same instance, profile, satisfaction class and
\* initial budget per voter, with an empty initial allocation.
C2_NaiveEqualsOptimized ==
    NaiveEnded =>
        /\ nv.pc = "done"
        /\ SeqSet(nv.res) = SeqSet(result.value[1])
        /\ Len(nv.res) = Len(result.value[1])

\* what charging every supporter of p min(budget, q * satisfaction), counted
\* with the multiplicity of the ballot, collects
Collected(b, p, q) ==
    LET s == mes_projects.supporter_indices[p]
    IN  RSum([k \in 1..Len(s) |->
            RMul(RInt(multiplicity(s[k])),
                 RMin(b[s[k]], RMul(q, sat_project(s[k], p))))])

CanCover(b, p) ==
    RLeq(RInt(Cost(p)), available_budget(b, mes_projects.supporter_indices[p]))

\* C3: for a project whose supporters' total remaining budget is at least its
\* cost, affordability_poor_rich returns a price q (never None, no error) at
\* which the supporters' payments min(budget, q * satisfaction), counted with
\* multiplicity, collect exactly the cost of the project.
C3_PoorRichCollectsCost ==
    nv.pc = "loop" =>
        \A p \in nv.remaining :
            CanCover(nv.voters, p) =>
                LET r == affordability_poor_rich(nv.voters, p)
                IN  /\ r.kind = "value"
                    /\ Collected(nv.voters, p, r.value) = RInt(Cost(p))

RoundPending == pc = "inner" /\ stack # <<>> /\ ~Top.scanned

\* C4: in every round of mes_inner_algo, for every project the scan prices
\* (its supporters can cover its cost), the affordability of the sorted
\* supporter scan equals the value affordability_poor_rich returns for the
\* same voters and the same project.
C4_ScanEqualsPoorRich ==
    RoundPending =>
        \A order \in ScanOrders(Top) :
            LET r == Scan(Top, order) IN
            \A p \in r.priced :
                LET q == affordability_poor_rich(Top.voters, p)
                IN  q.kind = "value" /\ q.value = r.affordability[p]

-----------------------------------------------------------------------------
(* Resolute and irresolute runs. *)

\* the frame a run of the scheme starts from at the budget b, the supporter
\* lists in the order of the voter list
FreshFrame(b) ==
    FirstFrame(b, [mes_projects EXCEPT
                      !.supporter_indices = [p \in Projects |-> Supporters(sat_profile, p)]],
               budget_allocation)

AScan(f) == Scan(f, CHOOSE o \in ScanOrders(f) : TRUE)

RECURSIVE ResoluteRun(_, _)
\* the frame a resolute run from the frame f ends in under the tie-breaking rule
ResoluteRun(f, rule) ==
    LET r == AScan(f)
    IN  IF r.error # "" \/ r.tied_projects = <<>> THEN [f EXCEPT !.scanned = r.error = ""]
        ELSE ResoluteRun(Select(f, r, TieOrder(r.tied_projects, rule)[1]), rule)

RECURSIVE ResoluteScheme(_, _, _, _)
\* what the resolute scheme returns from the frame f on, prev the outcome of
\* the run before; <<0>> stands for an exception
ResoluteScheme(f, b, prev, rule) ==
    LET e == ResoluteRun(f, rule)
        inc == args.voter_budget_increment
    IN  IF ~e.scanned THEN <<0>>
        ELSE IF inc = None THEN e.alloc
        ELSE IF ~is_feasible(e.alloc) THEN prev
        ELSE IF is_exhaustive(e.alloc, mes_projects.set) THEN e.alloc
        ELSE ResoluteScheme(
                 FirstFrame(RAdd(b, inc),
                            [mes_projects EXCEPT !.supporter_indices = e.supporter_indices],
                            budget_allocation),
                 RAdd(b, inc), e.alloc, rule)

\* the resolute outcome on the inputs of the call under a tie-breaking rule
ResoluteOutcome(rule) ==
    LET b == frac(RInt(instance.budget_limit), RInt(num_ballots))
    IN  ResoluteScheme(FreshFrame(b), b, budget_allocation, rule)

IrresoluteReturned == pc = "done" /\ ~args.resoluteness

ResultSets == {SeqSet(result.value[k]) : k \in 1..Len(result.value)}

RECURSIVE Reachable(_)
\* the project sets of the allocations a run from the frame f can end in when
\* every tie is resolved in some way
Reachable(f) ==
    LET r == AScan(f)
    IN  IF r.tied_projects = <<>> THEN {SeqSet(f.alloc)}
        ELSE UNION {Reachable(Select(f, r, r.tied_projects[k])) :
                        k \in 1..Len(r.tied_projects)}

ExactAfford(f, p) ==
    SupporterScan(f.voters, p, SortSupporters(f.supporter_indices[p], f.voters, p),
                  1, Zero, mes_projects.total_sat[p])

\* the projects of f whose supporters can pay for them
Affordable(f) ==
    {p \in f.projects :
        /\ RLeq(RInt(Cost(p)), available_budget(f.voters, f.supporter_indices[p]))
        /\ ExactAfford(f, p).found}

\* the projects tied at the minimum affordability of the round of f
MinTied(f) ==
    {p \in Affordable(f) :
        \A q \in Affordable(f) : RLeq(ExactAfford(f, p).afford, ExactAfford(f, q).afford)}

\* the project of S a rule orders first
FirstOf(S, rank) == CHOOSE p \in S : \A q \in S : rank[p] <= rank[q]

-----------------------------------------------------------------------------
(* Initial allocations. *)

Seeded == args.initial_budget_allocation # <<>>

\* C8: with a non-empty initial allocation, its projects are in every returned
\* allocation and never among the projects of the scheme, and every returned
\* allocation, initial projects included, costs at most instance.budget_limit.
C8_SeededWithinBudget ==
    (Returned /\ Seeded) =>
        /\ mes_projects.set \cap SeqSet(args.initial_budget_allocation) = {}
        /\ \A k \in 1..Len(result.value) :
               /\ SeqSet(args.initial_budget_allocation) \subseteq SeqSet(result.value[k])
               /\ total_cost(result.value[k]) <= instance.budget_limit

NoDuplicates(a) == \A j, k \in 1..Len(a) : a[j] = a[k] => j = k

\* C9: no project appears twice in a returned allocation; in every call of the
\* inner algorithm the remaining projects are disjoint from the allocation of
\* the call, which holds the initial allocation and the zero-cost projects.
C9_NoProjectTwice ==
    /\ \A k \in 1..Len(stack) :
           /\ NoDuplicates(stack[k].alloc)
           /\ stack[k].projects \cap SeqSet(stack[k].alloc) = {}
           /\ SeqSet(budget_allocation) \subseteq SeqSet(stack[k].alloc)
    /\ \A k \in 1..Len(all_budget_allocations) : NoDuplicates(all_budget_allocations[k])
    /\ Returned => \A k \in 1..Len(result.value) : NoDuplicates(result.value[k])

\* a returned allocation with the initial project, a zero-cost project and a
\* selected project
C9_Witness ==
    /\ Returned /\ Seeded
    /\ \E k \in 1..Len(result.value) :
           /\ Len(budget_allocation) > Len(args.initial_budget_allocation)
           /\ Len(result.value[k]) > Len(budget_allocation)

-----------------------------------------------------------------------------
(* The iterated variant. *)

RunEnded == pc = "inner" /\ stack = <<>>

Iterated == args.resoluteness /\ args.voter_budget_increment # None

\* what C10 says of the steps of the scheme: the first run starts every voter
\* at budget_limit / num_ballots; after a run an infeasible outcome returns the
\* previous outcome, a feasible and exhaustive one is returned, and otherwise
\* every voter starts the next run with the increment added
IteratedStep ==
    /\ (pc = "call" /\ Iterated) =>
           stack'[1].voters =
               [i \in Ballots |-> frac(RInt(instance.budget_limit), RInt(num_ballots))]
    /\ (RunEnded /\ Iterated) =>
           LET outcome == all_budget_allocations[1] IN
           IF ~is_feasible(outcome)
           THEN pc' = "done" /\ result' = previous_outcome
           ELSE IF is_exhaustive(outcome, mes_projects.set)
           THEN pc' = "done" /\ result'.value = <<outcome>>
           ELSE /\ pc' = "inner"
                /\ previous_outcome'.value = <<outcome>>
                /\ stack'[1].voters =
                       [i \in Ballots |->
                           RAdd(initial_budget_per_voter, args.voter_budget_increment)]
                /\ stack'[1].alloc = budget_allocation

\* C10: the resolute iterated scheme takes the steps above, and the
\* allocation it returns is feasible.
C10_IteratedFeasible ==
    [][/\ IteratedStep
       /\ (Iterated /\ pc' = "done") => is_feasible(result'.value[1])]_vars

\* C10 (amended): the resolute iterated scheme takes the steps above, and the
\* allocation it returns is feasible when the initial allocation is feasible.
C10_IteratedFeasibleSeed ==
    [][/\ IteratedStep
       /\ (Iterated /\ pc' = "done" /\ is_feasible(args.initial_budget_allocation)) =>
              is_feasible(result'.value[1])]_vars

\* an iterated run that was rerun, then went over the budget limit and
\* returned the outcome of the run before
C10_Witness ==
    /\ Returned /\ Iterated
    /\ ~is_feasible(all_budget_allocations[1])
    /\ result = previous_outcome
    /\ result.value[1] # budget_allocation
    /\ RLt(frac(RInt(instance.budget_limit), RInt(num_ballots)), initial_budget_per_voter)

-----------------------------------------------------------------------------
(* The type of the value the irresolute mode returns. *)

\* C11: in irresolute mode the returned value is a list of allocations,
\* whichever exit of the scheme is taken.
C11_IrresoluteReturnsList ==
    IrresoluteReturned => result.list

-----------------------------------------------------------------------------
(* The granularity of the increment. *)

RECURSIVE IteratedScheme(_, _, _, _, _)
\* the resolute iterated scheme from the frame f on with the increment inc:
\* the allocation it returns and whether the exit was the exhaustive one
\* (alloc <<0>>: an exception)
IteratedScheme(f, b, prev, rule, inc) ==
    LET e == ResoluteRun(f, rule)
    IN  IF ~e.scanned THEN [alloc |-> <<0>>, exhaustive |-> FALSE]
        ELSE IF ~is_feasible(e.alloc) THEN [alloc |-> prev, exhaustive |-> FALSE]
        ELSE IF is_exhaustive(e.alloc, mes_projects.set)
        THEN [alloc |-> e.alloc, exhaustive |-> TRUE]
        ELSE IteratedScheme(
                 FirstFrame(RAdd(b, inc),
                            [mes_projects EXCEPT !.supporter_indices = e.supporter_indices],
                            budget_allocation),
                 RAdd(b, inc), e.alloc, rule, inc)

\* the resolute iterated outcome on the inputs of the call with the increment inc
IteratedOutcome(inc) ==
    LET b == frac(RInt(instance.budget_limit), RInt(num_ballots))
    IN  IteratedScheme(FreshFrame(b), b, budget_allocation, args.tie_breaking, inc)

\* the multiples of the increment that are compared with it
Coarser == {RMul(RInt(2), args.voter_budget_increment)}

\* C12: a resolute iterated run that completed as exhaustive allocates at
\* least the cost that the run with a coarser increment, a multiple of its
\* increment, allocates when it completes as exhaustive.
C12_FinerIncrementCostsNoLess ==
    (Returned /\ Iterated /\ result.value = <<all_budget_allocations[1]>>
        /\ is_exhaustive(result.value[1], mes_projects.set)) =>
        \A inc \in Coarser :
            IteratedOutcome(inc).exhaustive =>
                total_cost(result.value[1]) >= total_cost(IteratedOutcome(inc).alloc)

-----------------------------------------------------------------------------
(* Calls without ballots or without projects. *)

NoBallots == Ballots = {}

NoProjects == Projects = {}

Ended == pc \in {"done", "raised"}

\* C13: a call with a profile without ballots or an instance without projects
\* raises no error and returns an empty allocation (in irresolute mode the
\* list of the empty allocation).
C13_EmptyInputsEmptyAllocation ==
    (Ended /\ (NoBallots \/ NoProjects)) =>
        /\ pc = "done"
        /\ result.value = <<<<>>>>

-----------------------------------------------------------------------------
(* Termination of the inner algorithm. *)

\* the rounds that led to the call k of the stack
Depth(k) == Len(stack[k].alloc) - Len(budget_allocation)

\* every round behind a call selected a project that is no longer among the
\* remaining ones, so the depth of a call and its remaining projects stay
\* within the projects the run started from
DepthBounded ==
    \A k \in 1..Len(stack) :
        /\ Depth(k) + Cardinality(stack[k].projects) <= Cardinality(mes_projects.set)
        /\ k > 1 => Depth(k) = Depth(k - 1) + 1

\* the rounds a call with n remaining projects can still cause, itself
\* included: its own round, then at most one call with fewer projects for
\* each of its projects
RECURSIVE RoundsLeft(_)
RoundsLeft(n) == IF n = 0 THEN 2 ELSE 2 + n * (RoundsLeft(n - 1) + 1)

\* the same for a call that has run its round and still has to branch on its
\* tied projects
BranchesLeft(f) ==
    1 + Len(f.tied_projects) *
            (IF f.projects = {} THEN 1 ELSE RoundsLeft(Cardinality(f.projects) - 1) + 1)

\* the work left on the stack of calls
Rank == Sum(1..Len(stack),
            [k \in 1..Len(stack) |->
                IF stack[k].scanned THEN BranchesLeft(stack[k])
                ELSE RoundsLeft(Cardinality(stack[k].projects))])

\* C14: every run of mes_inner_algo ends, in resolute and irresolute mode:
\* each step of a run strictly lowers the work left, a natural number, and the
\* depth of the recursion never exceeds the number of projects the run
\* started from.
C14_InnerAlgoTerminates ==
    [][/\ (pc' = "inner" => DepthBounded')
       /\ (pc = "inner" /\ stack # <<>> => Rank' < Rank)]_vars

\* an irresolute run that branched and went to the largest depth: an
\* allocation holds every project
C14_Witness ==
    /\ IrresoluteReturned
    /\ Len(result.value) > 1
    /\ \E k \in 1..Len(result.value) : SeqSet(result.value[k]) = Projects

-----------------------------------------------------------------------------
(* pb_ear: the check of the profile argument. *)

\* C15: a call of pb_ear with a profile that is not an ordinal profile raises
\* ValueError, and it does so before the instance is read and before any
\* project is selected.
C15_NonOrdinalRaisesValueError ==
    (ear.kind \notin OrdinalKinds /\ ear.pc \notin {"idle", "call"}) =>
        /\ ear.pc = "raised"
        /\ ear.raised = "ValueError"
        /\ ear.budget = None
        /\ ear.project_cost = <<>>
        /\ ear.selected_projects = {}
        /\ ear.result = <<>>

\* the call with a string and with a filled profile of another class, on an
\* instance with projects
C15_Witness ==
    /\ ear.pc = "raised"
    /\ ear.kind \in {"str", "ApprovalProfile"}
    /\ Len(profile.ballot) = 1
    /\ Projects # {}

-----------------------------------------------------------------------------
(* pb_ear: inputs that leave nothing to select. *)

EarEnded == ear.pc \in {"done", "raised"}

\* an ordinal profile with no voters, an instance with no projects, a budget
\* limit of 0, or only projects that cost more than the budget limit
NothingToSelect ==
    /\ ear.kind \in OrdinalKinds
    /\ \/ Len(profile.ballot) = 0
       \/ Projects = {}
       \/ instance.budget_limit = 0
       \/ \A p \in Projects : Cost(p) > instance.budget_limit

\* C16: on such inputs pb_ear raises nothing and returns the empty allocation.
C16_NothingToSelectReturnsEmpty ==
    (EarEnded /\ NothingToSelect) => (ear.pc = "done" /\ ear.result = <<>>)

-----------------------------------------------------------------------------
(* pb_ear: the budget. *)

\* the cost of the projects selected so far
SelectedCost == Sum(ear.selected_projects, ear.project_cost)

\* C17: in every step of pb_ear the remaining budget is the budget limit minus
\* the cost of the selected projects and is not negative, a selection adds a
\* project that was not selected before, and the allocation returned costs at
\* most the budget limit and holds no project twice.
C17_EarWithinBudget ==
    [][/\ ear'.pc = "loop" =>
            /\ ear'.remaining_budget = instance.budget_limit - SelectedCost'
            /\ ear'.remaining_budget >= 0
       /\ (ear.pc = "loop" /\ ear'.pc = "loop" /\ ear'.j = ear.j) =>
            \E c \in DOMAIN ear.project_cost \ ear.selected_projects :
                ear'.selected_projects = ear.selected_projects \cup {c}
       /\ ear'.pc = "done" =>
            /\ total_cost(ear'.result) <= instance.budget_limit
            /\ NoDuplicates(ear'.result)
            /\ SeqSet(ear'.result) = ear.selected_projects]_vars

\* a run that selected two projects and had to leave one out
C17_Witness ==
    /\ ear.pc = "done"
    /\ Len(ear.result) = 2
    /\ \E p \in Projects \ ear.selected_projects : Cost(p) > ear.remaining_budget

-----------------------------------------------------------------------------
(* sequential_phragmen: resolute and irresolute runs. *)

RECURSIVE PhrResoluteRun(_, _)
\* the allocation a resolute run ends with from the call f on
PhrResoluteRun(f, rank) ==
    IF PhrFinal(f) THEN SortAlloc(f.alloc)
    ELSE PhrResoluteRun(PhrSelect(f, PhrTied(f, rank)[1]), rank)

\* the resolute outcome on the inputs of the call under a tie-breaking rule
PhrResoluteOutcome(rank) == PhrResoluteRun(PhrFirstFrame, rank)

PhrReturned == phr.pc = "done"

\* C18: the allocation sequential_phragmen returns in resolute mode, under any
\* tie-breaking rule, is as a set of projects one of the allocations it
\* returns in irresolute mode on the same instance and profile.
C18_PhragmenResoluteInIrresolute ==
    /\ (PhrReturned /\ args.resoluteness) =>
            phr.result.value = <<PhrResoluteOutcome(args.tie_breaking)>>
    /\ (PhrReturned /\ ~args.resoluteness) =>
            \A rule \in TieBreakingRules :
                \E k \in 1..Len(phr.result.value) :
                    SeqSet(phr.result.value[k]) = SeqSet(PhrResoluteOutcome(rule))

\* an irresolute run with several allocations, one of which is the resolute
\* outcome of a rule other than the first
C18_Witness ==
    /\ PhrReturned /\ ~args.resoluteness
    /\ Len(phr.result.value) > 1
    /\ \E rule \in TieBreakingRules :
            SeqSet(PhrResoluteOutcome(rule)) # SeqSet(phr.result.value[1])

-----------------------------------------------------------------------------
(* sequential_phragmen: the budget. *)

PhrFeasibleStart == total_cost(args.initial_budget_allocation) <= instance.budget_limit

\* a call of aux whose cheapest load is attained by a project that does not fit
PhrBlocked ==
    /\ phr.pc = "aux" /\ phr.stack # <<>>
    /\ ~PhrTop.scanned /\ PhrTop.projects # {}
    /\ OverBudget(PhrTop)

\* C19: from a feasible initial allocation every call of aux holds an
\* allocation within the budget limit, whose cost it carries; a call in which a
\* project attaining the minimal new maximum load does not fit selects nothing
\* and stores its allocation; every allocation stored and returned costs at
\* most the budget limit.
C19_PhragmenWithinBudget ==
    [][PhrFeasibleStart =>
        /\ \A k \in 1..Len(phr'.stack) :
              /\ phr'.stack[k].cost = total_cost(phr'.stack[k].alloc)
              /\ phr'.stack[k].cost <= instance.budget_limit
        /\ PhrBlocked =>
              /\ phr'.stack = PhrBelow
              /\ \E k \in 1..Len(phr'.allocs) : phr'.allocs[k] = SortAlloc(PhrTop.alloc)
        /\ \A k \in 1..Len(phr'.allocs) :
              total_cost(phr'.allocs[k]) <= instance.budget_limit
        /\ \A k \in 1..Len(phr'.result.value) :
              total_cost(phr'.result.value[k]) <= instance.budget_limit]_vars

\* a run from an initial allocation that added a project and then stopped at a
\* project that did not fit
C19_Witness ==
    /\ PhrReturned
    /\ args.initial_budget_allocation # <<>>
    /\ \E k \in 1..Len(phr.result.value) :
        /\ Len(phr.result.value[k]) > 1
        /\ \E p \in Projects \ SeqSet(phr.result.value[k]) :
              total_cost(phr.result.value[k]) + Cost(p) > instance.budget_limit

-----------------------------------------------------------------------------
(* The budgets of the voters during a run of the inner algorithm. *)

\* the call on top of the stack after the step
TopAfter == stack'[Len(stack')]

\* the step selects a project: the call on top after it holds one project more
Selection ==
    /\ pc = "inner" /\ stack # <<>>
    /\ pc' = "inner" /\ stack' # <<>>
    /\ Len(TopAfter.alloc) = Len(Top.alloc) + 1

\* best_afford of the round that selects
Price == IF Top.scanned THEN Top.best_afford ELSE AScan(Top).best_afford

\* what supporter i owes for p at best_afford q
Owed(q, p, i) == RMul(q, supporters_sat(p, i))

\* the budgets v are those of b after the selection of p at best_afford q
PaidFor(b, v, p, q) ==
    \A i \in Ballots :
        /\ RLeq(Zero, v[i])
        /\ RLeq(v[i], b[i])
        /\ IF RLt(Zero, sat_profile[i][p])
           THEN /\ v[i] = RSub(b[i], RMin(b[i], Owed(q, p, i)))
                /\ RLeq(b[i], Owed(q, p, i)) => v[i] = Zero
           ELSE v[i] = b[i]

-----------------------------------------------------------------------------
(* The early stop of the scan. *)

-----------------------------------------------------------------------------
(* The binary_sat shortcut. *)

\* the second of the two calls ended
BothEnded == pc \in {"done", "raised"} /\ kept.pc = "kept"

\* the projects of the allocation a call returned, {0} if it raised
Allocated(r) == IF r.raised # "" THEN {0} ELSE SeqSet(r.value[1])

\* C25: on an approval profile a resolute call with binary_sat=False returns
\* an allocation of the same projects as the call with the default binary_sat
\* (True) on the same inputs, for every satisfaction class.
C25_BinarySatSameResult == BothEnded => Allocated(result) = Allocated(kept.result)

\* the same for the satisfaction classes that give every supporter of a
\* project the same satisfaction
C25_BinarySatSameResultUniform ==
    (BothEnded /\ args.sat_class # "Relative_Cardinality_Sat") =>
        Allocated(result) = Allocated(kept.result)

-----------------------------------------------------------------------------
(* The branches of the irresolute mode. *)

\* the frames k and k + 1 of the stack s are a call after its scan and the
\* branch of the tied project p, started from the state of the call
BranchOf(s, k, p) ==
    /\ s[k + 1].alloc = Append(s[k].alloc, p)
    /\ s[k + 1].projects = s[k].projects \ {p}
    /\ s[k + 1].voters = Pay(s[k].voters, p, s[k].supporter_indices[p], 1, s[k].best_afford)

\* C22: in irresolute mode a call keeps the voters' budgets, the remaining
\* projects and the partial allocation it had at the end of its scan while the
\* branches of its tied projects run and return, and every branch, the first
\* and the later ones, starts from exactly that state: the allocation with
\* the tied project appended, the projects without it, the budgets after its
\* supporters paid.
C22_BranchesStartFromScanState ==
    [][(pc = "inner" /\ pc' = "inner" /\ ~args.resoluteness) =>
          /\ \A k \in 1..Len(stack) :
                (k <= Len(stack') /\ stack[k].scanned) =>
                    /\ stack'[k].voters = stack[k].voters
                    /\ stack'[k].projects = stack[k].projects
                    /\ stack'[k].alloc = stack[k].alloc
                    /\ stack'[k].best_afford = stack[k].best_afford
          /\ (Len(stack') > Len(stack) /\ stack # <<>>) =>
                /\ Top.scanned /\ Top.tied_projects # <<>>
                /\ BranchOf(stack', Len(stack), Head(Top.tied_projects))]_vars

\* a later sibling branch has just started, after an earlier branch of the same
\* call selected projects, deducted payments and ended with an allocation
C22_Witness ==
    /\ pc = "inner" /\ ~args.resoluteness /\ Len(stack) = 2
    /\ stack[1].scanned /\ ~stack[2].scanned
    /\ all_budget_allocations # <<>>
    /\ \E p \in Projects : BranchOf(stack, 1, p)
    /\ stack[2].voters # stack[1].voters
    /\ \E k \in 1..Len(all_budget_allocations) :
          Len(all_budget_allocations[k]) > Len(stack[2].alloc)

-----------------------------------------------------------------------------
(* The payments for a selected project. *)

\* what the voters paid between the budgets b and v, with multiplicity
Deducted(b, v) == RSum([i \in Ballots |-> RMul(RInt(multiplicity(i)), RSub(b[i], v[i]))])

\* C24: whenever a project is selected, the amounts deducted from the voters,
\* counted with multiplicity, sum to exactly the cost of the project, and the
\* supporters of the project held at least its cost before the selection.
C24_PaymentsSumToCost ==
    [][Selection =>
          LET p == TopAfter.alloc[Len(TopAfter.alloc)] IN
          /\ Deducted(Top.voters, TopAfter.voters) = RInt(Cost(p))
          /\ RLeq(RInt(Cost(p)), available_budget(Top.voters, Top.supporter_indices[p]))]_vars

-----------------------------------------------------------------------------
(* The reruns of the iterated scheme. *)

\* the step starts a rerun of the inner algorithm
Rerun == pc = "inner" /\ stack = <<>> /\ pc' = "inner" /\ stack' # <<>>

\* C26: with a positive voter_budget_increment the scheme reruns the inner
\* algorithm only while the starting budget of a voter is below the total cost
\* of the projects of the scheme, and every rerun raises that budget by the
\* increment, so the reruns are finitely many; each rerun starts with the
\* projects of the scheme, the seeded allocation, the initial affordabilities,
\* every voter at the new starting budget and no allocation of the run before.
C26_IteratedSchemeTerminates ==
    [][Rerun =>
          /\ RLt(Zero, args.voter_budget_increment)
          /\ RLt(initial_budget_per_voter, RInt(set_cost(mes_projects.set)))
          /\ initial_budget_per_voter' =
                 RAdd(initial_budget_per_voter, args.voter_budget_increment)
          /\ Len(stack') = 1
          /\ stack'[1].projects = mes_projects.set
          /\ stack'[1].alloc = budget_allocation
          /\ stack'[1].affordability = mes_projects.initial_affordability
          /\ \A i \in Ballots : stack'[1].voters[i] = initial_budget_per_voter'
          /\ ~stack'[1].scanned /\ stack'[1].tied_projects = <<>>
          /\ all_budget_allocations' = <<>>
          /\ UNCHANGED <<mes_projects, budget_allocation>>]_vars

\* the scheme returned after two reruns at least, and the last run had
\* selected projects and lowered stored affordabilities
C26_Witness ==
    /\ pc = "done" /\ args.voter_budget_increment # None
    /\ RLeq(RAdd(frac(RInt(instance.budget_limit), RInt(num_ballots)), RInt(2)),
            initial_budget_per_voter)
    /\ result.raised = ""
    /\ \E k \in 1..Len(result.value) : Len(result.value[k]) > Len(budget_allocation)

-----------------------------------------------------------------------------
(* The weights of pb_ear. *)

\* the step of pb_ear selects a project
EarSelection == ear.pc = "loop" /\ ear'.selected_projects # ear.selected_projects

\* the voters approving c at the rank threshold
Approvers(c) == {i \in DOMAIN ear.voters : c \in approvals(i)}

\* the total weight w gives the voters of S
Weight(w, S) == LET members == SetToSeq(S) IN RSum([k \in 1..Len(members) |-> w[members[k]]])

\* C27: a project c is selected only when the total weight of its approvers at
\* the rank threshold is at least initial_n * cost(c) / budget; the selection
\* lowers the total weight of the approvers by exactly that amount, each in
\* proportion to the weight held, leaves the weight of every other voter as it
\* was, and no weight is negative.
C27_EarWeights ==
    [][EarSelection =>
          \A c \in ear'.selected_projects \ ear.selected_projects :
              LET w == ear.voter_weights
                  v == ear'.voter_weights
                  S == Weight(w, Approvers(c))
              IN  /\ RLeq(Threshold(c), S)
                  /\ Weight(v, Approvers(c)) = RSub(S, Threshold(c))
                  /\ \A i \in Approvers(c) :
                        RMul(v[i], S) = RMul(w[i], RSub(S, Threshold(c)))
                  /\ \A i \in DOMAIN ear.voters \ Approvers(c) : v[i] = w[i]
                  /\ \A i \in DOMAIN ear.voters : RLeq(Zero, v[i])]_vars

-----------------------------------------------------------------------------
(* The loads of sequential_phragmen. *)

PhrTopAfter == phr'.stack[Len(phr'.stack)]

\* the step selects a project: the call of aux on top after it holds one
\* project more than the call on top before it
PhrSelection ==
    /\ phr.pc = "aux" /\ phr.stack # <<>>
    /\ phr'.pc = "aux" /\ phr'.stack # <<>>
    /\ Len(PhrTopAfter.alloc) = Len(PhrTop.alloc) + 1

\* C28: started with every load at 0, no load is negative, and at the
\* selection of a project every supporter gets the new maximum load, which is
\* at least the load the supporter carried, while the loads of the other
\* voters stay as they were: no load ever decreases.
C28_LoadsNeverDecrease ==
    [][/\ phr'.pc = "aux" =>
            \A k \in 1..Len(phr'.stack) : \A i \in Ballots :
                RLeq(Zero, phr'.stack[k].load[i])
       /\ PhrSelection =>
            LET p == PhrTopAfter.alloc[Len(PhrTopAfter.alloc)] IN
            \A i \in Ballots :
                IF p \in profile.ballot[i]
                THEN /\ PhrTopAfter.load[i] = min_new_maxload(PhrTop)
                     /\ RLeq(PhrTop.load[i], PhrTopAfter.load[i])
                ELSE PhrTopAfter.load[i] = PhrTop.load[i]]_vars

\* a call of aux after a selection that raised the positive load of a
\* supporter, while a voter outside the supporters kept a positive load
C28_Witness ==
    /\ phr.pc = "aux" /\ Len(phr.stack) >= 2
    /\ LET f == phr.stack[Len(phr.stack) - 1]
           g == PhrTop
           p == g.alloc[Len(g.alloc)]
       IN  /\ Len(g.alloc) = Len(f.alloc) + 1
           /\ \E i \in Ballots :
                 /\ p \in profile.ballot[i]
                 /\ RLt(Zero, f.load[i]) /\ RLt(f.load[i], g.load[i])
           /\ \E i \in Ballots :
                 /\ p \notin profile.ballot[i]
                 /\ RLt(Zero, f.load[i]) /\ g.load[i] = f.load[i]

-----------------------------------------------------------------------------
(* gpseq. *)

\* C23: a call of gpseq with a mode other than uniform and optimal never gets
\* to select a project or to return an allocation, and when it has ended it
\* has raised ValueError.
C23_InvalidModeRejected ==
    ~ValidMode(gps.mode) =>
        /\ gps.pc \notin {"fill", "done"}
        /\ gps.selected_projects = <<>>
        /\ gps.pc = "raised" => gps.raised = "ValueError"

\* C29: in a call of gpseq the remaining budget is never negative, no project
\* is selected twice and the selected projects cost the budget limit less the
\* remaining budget; the call returns the selected projects, and no project
\* outside them costs at most the remaining budget.
C29_GpsWithinBudgetExhaustive ==
    /\ gps.pc \in {"loop", "fill", "done"} =>
          /\ gps.remaining_budget >= 0
          /\ NoDuplicates(gps.selected_projects)
          /\ total_cost(gps.selected_projects) + gps.remaining_budget = instance.budget_limit
    /\ gps.pc = "done" =>
          /\ gps.result = gps.selected_projects
          /\ total_cost(gps.result) <= instance.budget_limit
          /\ \A p \in Projects \ SeqSet(gps.result) : Cost(p) > gps.remaining_budget

\* a call returned an approved project taken for its load before an approved
\* project of lower name, then a project nobody approves, and left out a
\* project that does not fit what remains
C29_Witness ==
    /\ gps.pc = "done" /\ ValidMode(gps.mode)
    /\ Len(gps.result) = 2
    /\ approvers(gps.result[1]) # {} /\ approvers(gps.result[2]) = {}
    /\ \E p \in Projects \ SeqSet(gps.result) :
          /\ approvers(p) # {} /\ p < gps.result[1]
          /\ Cost(p) > gps.remaining_budget
          /\ Cost(p) <= instance.budget_limit

-----------------------------------------------------------------------------
(* CSTV. *)

\* what the donors gave when cstv_budgeting was called
InitialTotal == Sum(Ballots, [i \in Ballots |-> Sum(Projects, profile.ballot[i])])

\* the step funds a project in the main loop
Funding == cstv.pc = "select" /\ cstv'.S # cstv.S

\* the step eliminates a project with transfers
Elimination ==
    /\ cstv.pc = "select" /\ cstv'.pc = "select"
    /\ cstv'.eliminated_projects # cstv.eliminated_projects

\* C30: in a run of cstv_budgeting whose donors donate the same total, a
\* project is funded in the main loop only when the donations on it are at
\* least its cost, and its funding takes at least its cost from the total of
\* the donations; an elimination with transfers leaves the total of every
\* donor as it was; and the projects returned, those added by the
\* post-procedure included, cost at most what the donors gave at the start.
C30_CstvWithinDonations ==
    [][/\ Funding =>
            \A p \in cstv'.S \ cstv.S :
                /\ RLeq(RInt(Cost(p)), Support(cstv.donors, p))
                /\ RLeq(TotalDonations(cstv'.donors),
                        RSub(TotalDonations(cstv.donors), RInt(Cost(p))))
       /\ Elimination =>
            \A i \in Ballots : DonorTotal(cstv'.donors[i]) = DonorTotal(cstv.donors[i])
       /\ (cstv'.pc = "done" /\ ~cstv'.result.none) =>
            set_cost(cstv'.result.value) <= InitialTotal]_vars

\* a run of the combination ewtc that funded a project of positive cost in the
\* main loop, moved donations in fractions, and got a further project from the
\* post-procedure
C30_Witness ==
    /\ cstv.pc = "done" /\ ~cstv.result.none /\ cstv.combination = "ewtc"
    /\ \E p \in cstv.S : Cost(p) > 0
    /\ cstv.result.value \ cstv.S # {}
    /\ set_cost(cstv.result.value \ cstv.S) > 0
    /\ \E i \in Ballots : \E key \in Projects : cstv.donors[i][key][2] # 1

====
